---- MODULE Spec2Model ----
(***************************************************************************)
(* Verification model of SUSE/scf-helper-release.                          *)
(*                                                                         *)
(* Part 1: the readiness probe of the switchboard-leader job               *)
(*   src/jobs/switchboard-leader/templates/readiness-switchboard.sh        *)
(* Every replica (pod) of the mysql-proxy role runs the script once per    *)
(* readiness-check cycle.  The replicas share one annotation of one        *)
(* Kubernetes service (the lease); the script reads it with `kubectl get`, *)
(* creates it with `kubectl annotate`, overwrites it with                  *)
(* `kubectl annotate --overwrite` and removes it with `kubectl annotate    *)
(* key-`.  Each kubectl call is one atomic step on the shared annotation;  *)
(* everything between two kubectl calls is local to the pod.               *)
(*                                                                         *)
(* Strings are sequences of one-character strings, so that formatting      *)
(* (`${H}:$(now)`) and parsing (`awk -F:`, shell arithmetic) are modelled  *)
(* by what they do.                                                        *)
(*                                                                         *)
(* The `log` helper (line 14) is written on one line without a `;`        *)
(* before its closing brace; the model reads it as the one-line function  *)
(* it is meant to be.  The log file itself is not modelled: the history   *)
(* `ops` keeps, for the run of each pod, what the log lines tell (which    *)
(* call was made, with which value) and the outcome of each call.         *)
(*                                                                         *)
(* Part 2: the credhub_setup command                                       *)
(*   src/src/credhub_setup/cmd/main.go, pkg/cc/secgroup.go,                *)
(*   pkg/quarks/resolver.go                                                *)
(* process () waits for the UAA and CC host names to resolve and then      *)
(* calls SecurityGroupBuilder.Apply or Remove, which talk to the cloud     *)
(* controller (CC) over HTTP.  The sources hold two forms of the request   *)
(* function of the builder (makeSecurityGroupRequest of pkg/cc/secgroup.go *)
(* and the later defaultRequester) and two of the wait (WaitForHost of     *)
(* pkg/quarks/resolver.go and HostWaiter.WaitForHost); the waits classify  *)
(* a lookup in the same way, the request functions read a response         *)
(* differently, so the model has both.  `requests` keeps what was sent.    *)
(* pkg/cc/secgroup.go also holds the functions GetExistingSecurityGroup    *)
(* and CreateOrUpdateSecurityGroup; their calls have a specification of    *)
(* their own (UpdateSpec), as has the wire format of the lease taken by    *)
(* itself (CodecSpec).  The controller behaves as the mock controllers of  *)
(* the tests do; a response that is no success carries no JSON body.       *)
(* The two waits, with a name server that may settle and a context that    *)
(* may be cancelled, also have a specification of their own (WaitSpec).    *)
(***************************************************************************)
EXTENDS Integers, Sequences, FiniteSets, TLC

\* ---------------------------------------------------------------- bounds
\* Epoch second at which the model starts watching.
Epoch0 == 8
\* Number of seconds watched.
Horizon == 1

\* ------------------------------------------------------- program constants
\* D: the lease duration (renewal property), line 8.
D == 3
\* `sleep 1`, line 89.
GraceDelay == 1

\* The probe interval of the scheduler; D has to exceed it (lines 67-70).
Interval == D - 1

\* The replicas running the probe.
Pods == {1, 2}
MaxTime == Epoch0 + Horizon

\* ---------------------------------------------------------------- strings
EmptyStr == << >>

Dig == <<"0", "1", "2", "3", "4", "5", "6", "7", "8", "9">>

DigitVal(c) == CHOOSE d \in 0 .. 9 : Dig[d + 1] = c

\* Decimal formatting, as `date '+%s'` prints the epoch second.
RECURSIVE DecStr(_)
DecStr(n) == IF n < 10 THEN << Dig[n + 1] >>
             ELSE DecStr(n \div 10) \o << Dig[(n % 10) + 1] >>

\* Variant of now that prints the last digit of the second only.
now_last_digit(t) == << Dig[(t % 10) + 1] >>

\* now (): the pod's reading of the clock, as a string.
now(t) == DecStr(t)

\* H: the pod's host name.
H(p) == << "p", Dig[p + 1] >>

\* Position of the first ':' of s, 0 when there is none.
ColonAt(s) == IF \E i \in 1 .. Len(s) : s[i] = ":"
              THEN CHOOSE i \in 1 .. Len(s) :
                     s[i] = ":" /\ \A j \in 1 .. (i - 1) : s[j] # ":"
              ELSE 0

\* awk -F: '{ print $k }'
RECURSIVE awkField(_, _)
awkField(s, k) ==
  LET i == ColonAt(s)
  IN IF k = 1
     THEN (IF i = 0 THEN s ELSE SubSeq(s, 1, i - 1))
     ELSE (IF i = 0 THEN EmptyStr ELSE awkField(SubSeq(s, i + 1, Len(s)), k - 1))

\* Shell arithmetic value of a decimal string.
RECURSIVE shellInt(_)
shellInt(s) == IF s = EmptyStr THEN 0
               ELSE shellInt(SubSeq(s, 1, Len(s) - 1)) * 10 + DigitVal(s[Len(s)])

\* ------------------------------------------------------------------ state
VARIABLES
  clock,    \* the epoch second `date '+%s'` returns
  lease,    \* the annotation $A of service $S; EmptyStr when it is not set
  pc,       \* pc[p]: where pod p's probe process stands; "idle" between runs
  CLAIM,    \* CLAIM[p]: the shell variable CLAIM of pod p's process
  C,        \* C[p]: the shell variable C of pod p's process
  wake,     \* wake[p]: the second at which pod p's `sleep 1` ends
  claimed,  \* claimed[p]: what claim () returned in pod p's run, if called
  verdict,  \* verdict[p]: exit status of pod p's latest finished run
  ops,      \* ops[p]: history of pod p's current (or latest) run
  due,      \* due[p]: the second by which pod p's next run is due
  onTime    \* the first lease was one the probe writes and no run was late

\* The state of the credhub_setup command (part 2).
VARIABLES
  requester, \* the request function built in: "makeSecurityGroupRequest"
             \* (pkg/cc/secgroup.go) or "defaultRequester" (its later form)
  host,      \* which host name process () is waiting for: "uaa", then "cc"
  wpc,       \* where WaitForHost stands: "lookup", "sleep" or "returned"
  outcomes,  \* history: what each lookup of the current WaitForHost returned
  sleeps,    \* history: how often the current WaitForHost has slept
  waitErr,   \* what the latest WaitForHost returned ("none": not yet)
  mode,      \* "none", or the call process () makes: "Apply" or "Remove"
  step,      \* where that call stands
  groupID,   \* its local variable groupID
  requests,  \* history: the HTTP requests the call has sent to the CC
  err,       \* what the call returned: "none" (not yet), "nil" or "error"
  ctxDoneAt, \* history: lookups made when ctx was cancelled; -1: it is not
  flaky,     \* DNS: lookups may still fail as temporary or not found
  groups,    \* CC: the GUIDs of the security groups with the builder's name
  bound      \* CC: bound[l], the GUIDs bound as default for lifecycle l

setupVars ==
  << requester, host, wpc, outcomes, sleeps, waitErr, mode, step, groupID,
     requests, err, groups, bound, ctxDoneAt, flaky >>

probeVars == << clock, lease, pc, CLAIM, C, wake, claimed, verdict, ops, due, onTime >>

\* The lease's wire format taken by itself (part 1): one value formed as
\* make_claim and extend_claim form it and read back as our_claim and
\* is_expired read it.
VARIABLES
  ident,    \* the host name H the value is formed from
  epoch,    \* the second `date '+%s'` returns when it is formed
  wire,     \* the value "claimant:claimtime" as it is stored
  CLAIMANT, \* the shell variable CLAIMANT of our_claim
  CLAIMSECS, \* the shell variable CLAIMSEC of is_expired
  cpc       \* which of the three steps comes next

codecVars == << ident, epoch, wire, CLAIMANT, CLAIMSECS, cpc >>

\* The state of the calls of CreateOrUpdateSecurityGroup (part 2).
VARIABLES
  rules,    \* CC: rules[g], the rules last sent for the group with GUID g
  content,  \* the security group definition the current call sends
  results   \* history: per call that returned, what it sent and returned

updateVars == << rules, content, results >>

vars == << probeVars, setupVars, codecVars, updateVars >>

\* One entry of the history of a run: the health check, a kubectl call or
\* an evaluation of is_expired, with its outcome.  `at` is the second the
\* run began (entry "present") or the second is_expired read; else 0.
Ev(op, ok, val, at) == [op |-> op, ok |-> ok, val |-> val, at |-> at]

\* "claimant:claimtime", lines 43 and 49.
\* Variant of the lease value without the ":<seconds>" part.
Encode_claimant_only(h, t) == h

Encode(h, t) == h \o << ":" >> \o now(t)

\* Mutant of our_claim: any claimant passes (test -n "${CLAIMANT}").
our_claim_nonempty(p, claim) == awkField(claim, 1) # EmptyStr

\* Mutant of our_claim: awk prints $2 in place of $1.
our_claim_field2(p, claim) == awkField(claim, 2) = H(p)

\* our_claim (), lines 29-33.
our_claim(p, claim) == awkField(claim, 1) = H(p)

\* Mutant of is_expired: -gt in place of -lt.
is_expired_gt(claim, t) ==
  LET CLAIMSEC == awkField(claim, 2)
      NOW == now(t)
  IN CLAIMSEC = EmptyStr \/ shellInt(CLAIMSEC) + D > shellInt(NOW)

\* Mutant of is_expired: -le in place of -lt.
is_expired_le(claim, t) ==
  LET CLAIMSEC == awkField(claim, 2)
      NOW == now(t)
  IN CLAIMSEC = EmptyStr \/ shellInt(CLAIMSEC) + D <= shellInt(NOW)

\* Variant of is_expired without the test -z of line 39.
is_expired_stamped_only(claim, t) ==
  LET CLAIMSEC == awkField(claim, 2)
      NOW == now(t)
  IN CLAIMSEC # EmptyStr /\ shellInt(CLAIMSEC) + D < shellInt(NOW)

\* is_expired (), lines 35-40.
is_expired(claim, t) ==
  LET CLAIMSEC == awkField(claim, 2)
      NOW == now(t)
  IN CLAIMSEC = EmptyStr \/ shellInt(CLAIMSEC) + D < shellInt(NOW)

\* Leases a run may find when the model starts watching: none, one that a
\* pod wrote D seconds ago, or a value without delimiter.
InitLeases ==
  {EmptyStr, H(1)} \cup {Encode(H(p), Epoch0 - D) : p \in Pods}

\* The credhub_setup command is not running.
SetupIdle ==
  /\ requester = "defaultRequester"
  /\ ctxDoneAt = -1
  /\ flaky = TRUE
  /\ host = "uaa"
  /\ wpc = "returned"
  /\ outcomes = << >>
  /\ sleeps = 0
  /\ waitErr = [kind |-> "none", IsTimeout |-> FALSE, IsTemporary |-> FALSE, IsNotFound |-> FALSE]
  /\ mode = "none"
  /\ step = "idle"
  /\ groupID = ""
  /\ requests = << >>
  /\ err = "none"
  /\ groups = << >>
  /\ bound = [l \in {"running", "staging"} |-> {}]

\* CreateOrUpdateSecurityGroup has not been called.
UpdateIdle ==
  /\ rules = [g \in {"g1", "g2"} |-> "none"]
  /\ content = "none"
  /\ results = << >>

\* No value is being formed or read by itself.
CodecIdle ==
  /\ ident = EmptyStr
  /\ epoch = 0
  /\ wire = EmptyStr
  /\ CLAIMANT = EmptyStr
  /\ CLAIMSECS = EmptyStr
  /\ cpc = "idle"

Init ==
  /\ SetupIdle
  /\ CodecIdle
  /\ UpdateIdle
  /\ clock = Epoch0
  /\ lease \in InitLeases
  /\ pc = [p \in Pods |-> "idle"]
  /\ CLAIM = [p \in Pods |-> EmptyStr]
  /\ C = [p \in Pods |-> EmptyStr]
  /\ wake = [p \in Pods |-> 0]
  /\ claimed = [p \in Pods |-> "n/a"]
  /\ verdict = [p \in Pods |-> "none"]
  /\ ops = [p \in Pods |-> << >>]
  /\ due = [p \in Pods |-> Epoch0 + Interval - 1]
  /\ onTime = (lease = EmptyStr \/ ColonAt(lease) # 0)

\* ---------------------------------------------------------------- helpers
\* `exit 0` (line 107) / `exit 1` (line 116): the run ends.
Exit(p, code) ==
  /\ pc' = [pc EXCEPT ![p] = "idle"]
  /\ verdict' = [verdict EXCEPT ![p] = IF code = 0 THEN "ready" ELSE "not-ready"]

\* Mutant of main_status: the exit status does not depend on claim ().
main_status_always0(rc) == 0

\* Lines 105-108 and 115-116: `if claim ; then exit 0 ; fi ... exit 1`
main_status(rc) == IF rc = 0 THEN 0 ELSE 1

\* claim () returns rc to the main part, which exits.
Return(p, rc) ==
  /\ claimed' = [claimed EXCEPT ![p] = IF rc = 0 THEN "yes" ELSE "no"]
  /\ Exit(p, main_status(rc))

Goto(p, label) ==
  /\ pc' = [pc EXCEPT ![p] = label]
  /\ UNCHANGED << claimed, verdict >>

Record(p, e) == ops' = [ops EXCEPT ![p] = Append(@, e)]

\* get_claim (), lines 21-27: what $(kubectl get ...) leaves in CLAIM.  A
\* kubectl that fails prints nothing, like a service without the annotation.
get_claim(reached) == IF reached THEN lease ELSE EmptyStr

\* Variant of annotate_ok: the annotation is replaced when it is set.
annotate_ok_replacing(reached) == reached

\* kubectl annotate without --overwrite (line 45) refuses to replace an
\* annotation that is set.
annotate_ok(reached) == reached /\ lease = EmptyStr

\* kubectl annotate --overwrite (line 51).
overwrite_ok(reached) == reached

\* ------------------------------------------------------------------ steps
\* Lines 103-111: the scheduler starts the probe, a first time at any
\* second and then Interval apart; present () tells whether the local
\* listener accepts a connection.
Start(p) ==
  /\ pc[p] = "idle"
  /\ clock >= due[p] \/ ops[p] = << >>
  /\ due' = [due EXCEPT ![p] = clock + Interval]
  /\ \E present \in BOOLEAN :
       /\ pc' = [pc EXCEPT ![p] = IF present THEN "claim_get" ELSE "dead_get"]
       /\ ops' = [ops EXCEPT ![p] = << Ev("present", present, EmptyStr, clock) >>]
  /\ CLAIM' = [CLAIM EXCEPT ![p] = EmptyStr]
  /\ C' = [C EXCEPT ![p] = EmptyStr]
  /\ claimed' = [claimed EXCEPT ![p] = "n/a"]
  /\ UNCHANGED << clock, lease, wake, verdict, onTime, setupVars, codecVars, updateVars >>

\* claim (), lines 60-66 and 75: the branch on get_claim's result and on
\* our_claim.
\* Variant of the dispatch that never looks at the claimant.
after_get_any_claimant(p, v) ==
  IF v = EmptyStr THEN "first_now" ELSE "expired"

after_get(p, v) ==
  IF v = EmptyStr THEN "first_now"
  ELSE IF our_claim(p, v) THEN "extend_now"
  ELSE "expired"

\* claim (), line 60: get_claim.
claim_get(p) ==
  /\ pc[p] = "claim_get"
  /\ \E reached \in BOOLEAN :
       LET v == get_claim(reached)
       IN /\ CLAIM' = [CLAIM EXCEPT ![p] = v]
          /\ Record(p, Ev("Get", reached, v, 0))
          /\ Goto(p, after_get(p, v))
  /\ UNCHANGED << clock, lease, C, wake, due, onTime, setupVars, codecVars, updateVars >>

\* Variant of stamp whose clock stands at the epoch.
stamp_at_epoch(p, from, to) ==
  /\ pc[p] = from
  /\ C' = [C EXCEPT ![p] = Encode(H(p), 0)]
  /\ Goto(p, to)
  /\ UNCHANGED << clock, lease, CLAIM, wake, ops, due, onTime, setupVars, codecVars, updateVars >>

\* make_claim (), line 43 and extend_claim (), line 49: C=${H}:$(now)
stamp(p, from, to) ==
  /\ pc[p] = from
  /\ C' = [C EXCEPT ![p] = Encode(H(p), clock)]
  /\ Goto(p, to)
  /\ UNCHANGED << clock, lease, CLAIM, wake, ops, due, onTime, setupVars, codecVars, updateVars >>

\* Variant of after_make without the `|| return 1`.
after_make_unchecked(from, ok) ==
  IF from = "first_put" THEN "return 0" ELSE "sleep"

\* Mutant of after_make: the first claim is re-verified like a takeover.
after_make_reverify(from, ok) == IF ~ok THEN "return 1" ELSE "sleep"

\* What follows make_claim: `make_claim || return 1` and then `return 0`
\* on the first claim (lines 62-63), the sleep on a takeover (lines 80-89).
after_make(from, ok) ==
  IF ~ok THEN "return 1"
  ELSE IF from = "first_put" THEN "return 0"
  ELSE "sleep"

\* make_claim (), line 45: kubectl annotate.
make_claim(p, from) ==
  /\ pc[p] = from
  /\ \E reached \in BOOLEAN :
       LET ok == annotate_ok(reached)
       IN /\ lease' = IF ok THEN C[p] ELSE lease
          /\ Record(p, Ev("Set", ok, C[p], 0))
          /\ CASE after_make(from, ok) = "return 1" -> Return(p, 1) /\ UNCHANGED wake
               [] after_make(from, ok) = "return 0" -> Return(p, 0) /\ UNCHANGED wake
               [] OTHER -> /\ Goto(p, "sleep")
                           /\ wake' = [wake EXCEPT ![p] = clock + GraceDelay]
  /\ UNCHANGED << clock, CLAIM, C, due, onTime, setupVars, codecVars, updateVars >>

\* Lines 61-63: no claim was read; make the first claim.
first_now(p) == stamp(p, "first_now", "first_put")

first_put(p) == make_claim(p, "first_put")

\* Lines 66-74: the claim read is ours; extend it.
extend_now(p) == stamp(p, "extend_now", "extend_put")

\* Mutant of after_extend: a failed extension is tried again.
after_extend_retry(ok) == IF ok THEN "return 0" ELSE "extend_now"

\* Mutant of after_extend: the `&& return 0` is missing.
after_extend_fallthrough(ok) == "expired"

\* Line 73: extend_claim && return 0
after_extend(ok) == IF ok THEN "return 0" ELSE "expired"

\* Variant of extend_put whose write is refused when the stored lease is
\* no longer the one the pod read.
extend_put_if_unchanged(p) ==
  /\ pc[p] = "extend_put"
  /\ \E reached \in BOOLEAN :
       LET ok == overwrite_ok(reached) /\ lease = CLAIM[p]
       IN /\ lease' = IF ok THEN C[p] ELSE lease
          /\ Record(p, Ev("Overwrite", ok, C[p], 0))
          /\ IF after_extend(ok) = "return 0"
             THEN Return(p, 0) ELSE Goto(p, after_extend(ok))
  /\ UNCHANGED << clock, CLAIM, C, wake, due, onTime, setupVars, codecVars, updateVars >>

extend_put(p) ==
  /\ pc[p] = "extend_put"
  /\ \E reached \in BOOLEAN :
       LET ok == overwrite_ok(reached)
       IN /\ lease' = IF ok THEN C[p] ELSE lease
          /\ Record(p, Ev("Overwrite", ok, C[p], 0))
          /\ IF after_extend(ok) = "return 0"
             THEN Return(p, 0) ELSE Goto(p, after_extend(ok))
  /\ UNCHANGED << clock, CLAIM, C, wake, due, onTime, setupVars, codecVars, updateVars >>

\* Lines 75 and 93-94: is_expired; standby when the claim is still fresh.
expired(p) ==
  /\ pc[p] = "expired"
  /\ LET e == is_expired(CLAIM[p], clock)
     IN /\ Record(p, Ev("expired?", e, CLAIM[p], clock))
        /\ IF e THEN Goto(p, "clear") ELSE Return(p, 1)
  /\ UNCHANGED << clock, lease, CLAIM, C, wake, due, onTime, setupVars, codecVars, updateVars >>

\* clear_claims (), lines 54-57; its exit status is not looked at.
\* Variant of clear_claims whose kubectl call leaves the annotation.
clear_claims_keeps(p, from, to) ==
  /\ pc[p] = from
  /\ \E reached \in BOOLEAN :
       /\ lease' = lease
       /\ Record(p, Ev("Clear", reached, EmptyStr, 0))
  /\ IF to = "exit" THEN Exit(p, 1) /\ UNCHANGED claimed ELSE Goto(p, to)
  /\ UNCHANGED << clock, CLAIM, C, wake, due, onTime, setupVars, codecVars, updateVars >>

clear_claims(p, from, to) ==
  /\ pc[p] = from
  /\ \E reached \in BOOLEAN :
       /\ lease' = IF reached THEN EmptyStr ELSE lease
       /\ Record(p, Ev("Clear", reached, EmptyStr, 0))
  /\ IF to = "exit" THEN Exit(p, 1) /\ UNCHANGED claimed ELSE Goto(p, to)
  /\ UNCHANGED << clock, CLAIM, C, wake, due, onTime, setupVars, codecVars, updateVars >>

\* Line 76.
clear(p) == clear_claims(p, "clear", "take_now")

\* Line 80.
take_now(p) == stamp(p, "take_now", "take_put")

take_put(p) == make_claim(p, "take_put")

\* Mutant of slept: the sleep is missing.
slept_at_once(p) == TRUE

\* Line 89: sleep 1.
slept(p) == clock >= wake[p]

sleep(p) ==
  /\ pc[p] = "sleep"
  /\ slept(p)
  /\ wake' = [wake EXCEPT ![p] = 0]
  /\ Goto(p, "reget")
  /\ UNCHANGED << clock, lease, CLAIM, C, ops, due, onTime, setupVars, codecVars, updateVars >>

\* Lines 90-91: get_claim && our_claim || return 1 ; return 0
reget(p) ==
  /\ pc[p] = "reget"
  /\ \E reached \in BOOLEAN :
       LET v == get_claim(reached)
       IN /\ CLAIM' = [CLAIM EXCEPT ![p] = v]
          /\ Record(p, Ev("Get", reached, v, 0))
          /\ IF v # EmptyStr /\ our_claim(p, v) THEN Return(p, 0) ELSE Return(p, 1)
  /\ UNCHANGED << clock, lease, C, wake, due, onTime, setupVars, codecVars, updateVars >>

\* Line 111: the listener is dead; get_claim && our_claim
dead_get(p) ==
  /\ pc[p] = "dead_get"
  /\ \E reached \in BOOLEAN :
       LET v == get_claim(reached)
       IN /\ CLAIM' = [CLAIM EXCEPT ![p] = v]
          /\ Record(p, Ev("Get", reached, v, 0))
          /\ IF v # EmptyStr /\ our_claim(p, v)
             THEN Goto(p, "dead_clear")
             ELSE Exit(p, 1) /\ UNCHANGED claimed
  /\ UNCHANGED << clock, lease, C, wake, due, onTime, setupVars, codecVars, updateVars >>

\* Lines 112-116.
dead_clear(p) == clear_claims(p, "dead_clear", "exit")

\* A second passes.  Time stops at MaxTime, except for a pod still asleep.
\* A pod whose run is due and has not begun makes the schedule late.
Tick ==
  /\ clock < MaxTime \/ \E p \in Pods : pc[p] = "sleep" /\ clock < wake[p]
  /\ clock' = clock + 1
  /\ onTime' = (onTime /\ \A p \in Pods : due[p] > clock)
  /\ UNCHANGED << lease, pc, CLAIM, C, wake, claimed, verdict, ops, due, setupVars, codecVars, updateVars >>

\* The steps of a run that is under way.
Run(p) ==
  \/ claim_get(p)
  \/ first_now(p)
  \/ first_put(p)
  \/ extend_now(p)
  \/ extend_put(p)
  \/ expired(p)
  \/ clear(p)
  \/ take_now(p)
  \/ take_put(p)
  \/ sleep(p)
  \/ reget(p)
  \/ dead_get(p)
  \/ dead_clear(p)

Next == Tick \/ \E p \in Pods : Start(p) \/ Run(p)

Spec == Init /\ [][Next]_vars

\* ================================================================ claims
\* Reading the history of a run.
Done(p) == pc[p] = "idle" /\ ops[p] # << >>

Healthy(p) == ops[p] # << >> /\ ops[p][1].ok

Kinds(p) == [i \in 1 .. Len(ops[p]) |-> ops[p][i].op]

Issued(p, kinds) == {i \in 1 .. Len(ops[p]) : ops[p][i].op \in kinds}

Claimant(v) == awkField(v, 1)

HasStamp(v) == awkField(v, 2) # EmptyStr

ClaimedAt(v) == shellInt(awkField(v, 2))

\* v is "<p's host name>:<a second of p's run>".
SelfNow(p, v) ==
  /\ awkField(v, 1) = H(p)
  /\ \E t \in ops[p][1].at .. clock : awkField(v, 2) = DecStr(t)
  /\ Len(v) = Len(H(p)) + 1 + Len(awkField(v, 2))

\* The lease that the first Get of p's run returned.
Read(p) == ops[p][2].val

\* ---------------------------------------------------------------- C2
\* C2: a finished run is ready if and only if its health check succeeded
\* and claim () returned success in that run; a run whose health check
\* failed never calls claim () and never writes the lease.
C2_ReadyIffHealthyAndClaimed ==
  \A p \in Pods :
    /\ Done(p) => (verdict[p] = "ready" <=> (Healthy(p) /\ claimed[p] = "yes"))
    /\ (ops[p] # << >> /\ ~Healthy(p)) =>
         /\ claimed[p] = "n/a"
         /\ Issued(p, {"Set", "Overwrite"}) = {}

C2_Witness ==
  \E p, q \in Pods :
    /\ Done(p) /\ verdict[p] = "ready" /\ claimed[p] = "yes"
    /\ Done(q) /\ ~Healthy(q) /\ verdict[q] = "not-ready" /\ Len(ops[q]) = 3

\* ---------------------------------------------------------------- C3
\* C3: a healthy run that reads a lease of another claimant and finds its
\* age at most D is a standby: claim () fails, and the run ends after the
\* one Get, without any Set, overwrite or Clear.
StandbyCase(p) ==
  /\ Len(ops[p]) >= 3
  /\ Healthy(p)
  /\ ops[p][2].op = "Get"
  /\ Read(p) # EmptyStr
  /\ Claimant(Read(p)) # H(p)
  /\ HasStamp(Read(p))
  /\ ops[p][3].op = "expired?"
  /\ ops[p][3].at - ClaimedAt(Read(p)) <= D

\* C3: a standby run ends not claimed after its one Get, writing nothing.
C3_StandbyWritesNothing ==
  \A p \in Pods :
    StandbyCase(p) =>
      /\ Done(p)
      /\ Len(ops[p]) = 3
      /\ Issued(p, {"Set", "Overwrite", "Clear"}) = {}
      /\ claimed[p] = "no"
      /\ verdict[p] = "not-ready"

\* The boundary: the lease is exactly D seconds old.
C3_Witness ==
  \E p \in Pods :
    /\ StandbyCase(p)
    /\ ops[p][3].at - ClaimedAt(Read(p)) = D
    /\ lease = Read(p)

\* ---------------------------------------------------------------- C4
\* C4: a healthy run that reads its own lease, at most D old, and whose
\* overwrite the store accepts, issues that one write of "self:now", no
\* Clear and no second Get, and claim () succeeds.
RenewCase(p) ==
  /\ Len(ops[p]) >= 3
  /\ Healthy(p)
  /\ ops[p][2].op = "Get"
  /\ Read(p) # EmptyStr
  /\ Claimant(Read(p)) = H(p)
  /\ HasStamp(Read(p))
  /\ ops[p][3].op = "Overwrite"
  /\ ops[p][3].ok
  /\ HasStamp(ops[p][3].val)
  /\ ClaimedAt(ops[p][3].val) - ClaimedAt(Read(p)) <= D

\* C4: an accepted renewal is one overwrite of "self:now", and claims.
C4_RenewalIsOneOverwrite ==
  \A p \in Pods :
    RenewCase(p) =>
      /\ Done(p)
      /\ Len(ops[p]) = 3
      /\ SelfNow(p, ops[p][3].val)
      /\ claimed[p] = "yes"

C4_Witness ==
  \E p \in Pods :
    /\ RenewCase(p)
    /\ Done(p)
    /\ lease = ops[p][3].val
    /\ ClaimedAt(lease) > ClaimedAt(Read(p))

\* ---------------------------------------------------------------- C5
\* C5: a healthy run that reads a lease of another claimant and finds it
\* expired issues Clear, then Set("self:now"), then waits GraceDelay, then
\* Get, in that order and nothing else; claim () succeeds only if that
\* second Get returns a lease whose claimant is the pod itself, and fails
\* otherwise (also when the second Get returns nothing).
TakeoverCase(p) ==
  /\ Len(ops[p]) >= 3
  /\ Healthy(p)
  /\ ops[p][2].op = "Get"
  /\ Read(p) # EmptyStr
  /\ Claimant(Read(p)) # H(p)
  /\ ops[p][3].op = "expired?"
  /\ ops[p][3].ok

IsPrefix(s, t) == Len(s) <= Len(t) /\ s = SubSeq(t, 1, Len(s))

\* C5: a takeover issues Clear, Set, (sleep,) Get in that order and claims
\* only if the second Get names the pod.
C5_TakeoverOrder ==
  \A p \in Pods :
    TakeoverCase(p) =>
      /\ IsPrefix(Kinds(p), << "present", "Get", "expired?", "Clear", "Set", "Get" >>)
      /\ Len(ops[p]) >= 5 => SelfNow(p, ops[p][5].val)
      /\ Len(ops[p]) = 6 => ops[p][5].ok
      /\ pc[p] = "reget" => clock >= ClaimedAt(C[p]) + GraceDelay
      /\ Done(p) => Len(ops[p]) \in {5, 6}
      /\ (Done(p) /\ Len(ops[p]) = 5) => (~ops[p][5].ok /\ claimed[p] = "no")
      /\ (Done(p) /\ Len(ops[p]) = 6) =>
           (claimed[p] = "yes" <=>
              (ops[p][6].val # EmptyStr /\ Claimant(ops[p][6].val) = H(p)))
      /\ (Done(p) /\ claimed[p] # "yes") => claimed[p] = "no"

\* A takeover that the second Get confirms, one second after the Set.
C5_Witness ==
  \E p \in Pods :
    /\ TakeoverCase(p)
    /\ Done(p)
    /\ Len(ops[p]) = 6
    /\ ops[p][4].ok
    /\ claimed[p] = "yes"
    /\ verdict[p] = "ready"
    /\ clock = ClaimedAt(ops[p][5].val) + GraceDelay

\* ---------------------------------------------------------------- C6
\* C6: a healthy run whose Get finds no lease issues exactly one
\* Set("self:now"), no Clear and no second Get; claim () succeeds if that
\* Set succeeds and fails if it fails; when the Set succeeds the stored
\* lease is the "self:now" it wrote.
FirstCase(p) ==
  /\ Len(ops[p]) >= 2
  /\ Healthy(p)
  /\ ops[p][2].op = "Get"
  /\ Read(p) = EmptyStr

FirstClaimShape ==
  \A p \in Pods :
    FirstCase(p) =>
      /\ IsPrefix(Kinds(p), << "present", "Get", "Set" >>)
      /\ Done(p) <=> Len(ops[p]) = 3
      /\ Len(ops[p]) = 3 =>
           /\ SelfNow(p, ops[p][3].val)
           /\ claimed[p] = IF ops[p][3].ok THEN "yes" ELSE "no"

FirstClaimLands ==
  \A p \in Pods :
    (pc[p] = "first_put" /\ claimed'[p] = "yes") =>
      /\ lease' = ops'[p][3].val
      /\ lease' = C[p]

\* C6: a first claim is one Set of "self:now"; it claims iff the Set
\* succeeds, and then the stored lease is the value written.
C6_FirstClaim == [][FirstClaimShape' /\ FirstClaimLands]_vars

C6_Witness ==
  \E p \in Pods :
    /\ FirstCase(p)
    /\ Done(p)
    /\ ops[p][2].ok
    /\ claimed[p] = "yes"
    /\ lease = ops[p][3].val
    /\ verdict[p] = "ready"

\* ---------------------------------------------------------------- C7
\* C7: a run whose health check fails and whose Get returns a lease of
\* the pod itself issues one Clear and no Set, and ends not-ready whether
\* or not the Clear succeeded.
ReleaseCase(p) ==
  /\ Len(ops[p]) >= 2
  /\ ~Healthy(p)
  /\ ops[p][2].op = "Get"
  /\ Read(p) # EmptyStr
  /\ Claimant(Read(p)) = H(p)

\* C7: an unhealthy holder issues one Clear, no Set, and ends not-ready.
C7_ReleaseOnLocalFailure ==
  \A p \in Pods :
    ReleaseCase(p) =>
      /\ IsPrefix(Kinds(p), << "present", "Get", "Clear" >>)
      /\ Done(p) <=> Len(ops[p]) = 3
      /\ Done(p) => verdict[p] = "not-ready"

\* The Clear failed, the lease is still there, and the run ended not-ready.
C7_Witness ==
  \E p \in Pods :
    /\ ReleaseCase(p)
    /\ Done(p)
    /\ ~ops[p][3].ok
    /\ lease = Read(p)
    /\ verdict[p] = "not-ready"

\* ---------------------------------------------------------------- C8
\* C8 (as claimed): a finished run in which some kubectl call failed (a
\* Get, a Set, an overwrite or a Clear) has the verdict not-ready.
StoreOps == {"Get", "Set", "Overwrite", "Clear"}

SomeStoreOpFailed(p) ==
  \E i \in Issued(p, StoreOps) : ~ops[p][i].ok

\* C8 (as claimed): a run with a failed kubectl call ends not-ready.
C8_StoreFailureMeansNotReady ==
  \A p \in Pods :
    (Done(p) /\ SomeStoreOpFailed(p)) => verdict[p] = "not-ready"

\* ---------------------------------------------------------------- C9
\* C9: whatever the lease, the health check and the failures of the
\* kubectl calls, a run issues at most five kubectl calls, never
\* repeats a step, is never stuck, and ends with one verdict, ready or
\* not-ready.
RunIsBounded ==
  \A p \in Pods : Cardinality(Issued(p, StoreOps)) <= 5

\* The line of claim () or of the main part at which a run stands.
Line(label) ==
  CASE label = "claim_get" -> 60
    [] label = "first_now" -> 62
    [] label = "first_put" -> 63
    [] label = "extend_now" -> 73
    [] label = "extend_put" -> 74
    [] label = "expired" -> 75
    [] label = "clear" -> 76
    [] label = "take_now" -> 79
    [] label = "take_put" -> 80
    [] label = "sleep" -> 89
    [] label = "reget" -> 90
    [] label = "dead_get" -> 111
    [] label = "dead_clear" -> 112
    [] OTHER -> 116

\* A run that is under way can take a step, or sleeps while time passes.
NeverStuck ==
  \A p \in Pods :
    pc[p] # "idle" =>
      \/ ENABLED Run(p)
      \/ pc[p] = "sleep" /\ ~slept(p) /\ ENABLED Tick

\* Every step of a run moves it down the script: nothing is repeated.
Forward ==
  \A p \in Pods :
    (pc[p] # "idle" /\ << pc[p], CLAIM[p], C[p], wake[p], ops[p] >>'
                         # << pc[p], CLAIM[p], C[p], wake[p], ops[p] >>)
      => Line(pc'[p]) > Line(pc[p])

\* The verdict is set by the step that ends the run, and only by it.
OneVerdict ==
  \A p \in Pods :
    /\ (pc[p] # "idle" /\ pc'[p] = "idle") => verdict'[p] \in {"ready", "not-ready"}
    /\ verdict'[p] # verdict[p] => (pc[p] # "idle" /\ pc'[p] = "idle")

\* C9: every run is bounded, never stuck, moves forward only and ends
\* with one verdict.
C9_EveryRunEnds == [](RunIsBounded /\ NeverStuck) /\ [][Forward /\ OneVerdict]_vars

\* The longest run: the renewal fails, the pod's own lease has expired,
\* and the takeover is confirmed.
C9_Witness ==
  \E p \in Pods :
    /\ Done(p)
    /\ Cardinality(Issued(p, StoreOps)) = 5
    /\ verdict[p] = "ready"

\* ---------------------------------------------------------------- C10
\* C10: is_expired judges a lease expired exactly when its claim time is
\* empty or now - claim time > D; a lease exactly D seconds old is not
\* expired.
C10_ExpiryPredicate ==
  \A p \in Pods :
    \A i \in Issued(p, {"expired?"}) :
      LET e == ops[p][i]
      IN e.ok <=> (~HasStamp(e.val) \/ e.at - ClaimedAt(e.val) > D)

C10_Witness ==
  \E p \in Pods :
    \E i \in Issued(p, {"expired?"}) :
      LET e == ops[p][i]
      IN HasStamp(e.val) /\ e.at - ClaimedAt(e.val) = D /\ ~e.ok

\* ---------------------------------------------------------------- C1
\* C1 (as claimed): while every run is on time, no two pods both have
\* ready as the verdict of their latest run.
BothReady(p, q) == p # q /\ verdict[p] = "ready" /\ verdict[q] = "ready"

C1_MutualExclusion ==
  onTime => \A p, q \in Pods : ~BothReady(p, q)

\* C1 (amended): the step with which a pod's run ends ready leaves the
\* stored lease naming that pod.
EndsReady(p) == pc[p] # "idle" /\ pc'[p] = "idle" /\ verdict'[p] = "ready"

C1_ReadyOnlyAsClaimant ==
  [][\A p \in Pods :
       EndsReady(p) => (lease' # EmptyStr /\ Claimant(lease') = H(p))]_vars

\* Both pods are ready, every run was on time, and the lease names one.
C1_Witness ==
  \E p, q \in Pods :
    /\ BothReady(p, q)
    /\ onTime
    /\ Done(p) /\ Done(q)
    /\ Claimant(lease) = H(q)

\* --------------------------------------------------------------- C17
\* The store operations of p's run after its first Get, in order.
IsStoreOp(e) == e.op \in StoreOps

StoreTail(p) == SelectSeq(SubSeq(ops[p], 3, Len(ops[p])), IsStoreOp)

TailKinds(p) == [i \in 1 .. Len(StoreTail(p)) |-> StoreTail(p)[i].op]

\* A finished healthy run whose first Get returned a stamped lease that
\* was older than D already when the run started.
ReadExpired(p) ==
  /\ Done(p)
  /\ Healthy(p)
  /\ Len(ops[p]) >= 2
  /\ ops[p][2].op = "Get"
  /\ HasStamp(Read(p))
  /\ ops[p][1].at - ClaimedAt(Read(p)) > D

\* The run went Clear, Set, Get as far as the Set allowed, and claimed
\* exactly when the re-read lease names the pod.
ClearSetGet(p, tail) ==
  /\ Len(tail) \in {2, 3}
  /\ [i \in 1 .. Len(tail) |-> tail[i].op]
       = SubSeq(<< "Clear", "Set", "Get" >>, 1, Len(tail))
  /\ Len(tail) = 2 => ~tail[2].ok
  /\ claimed[p] = "yes" <=>
       (/\ Len(tail) = 3
        /\ tail[3].val # EmptyStr
        /\ Claimant(tail[3].val) = H(p))

\* C17 (as claimed): every lease older than D, the pod's own included,
\* is handled by Clear, Set and a re-verifying Get, and the run claims
\* if and only if the re-read lease names the pod.
C17_ExpiredAlikeForAll ==
  \A p \in Pods : ReadExpired(p) => ClearSetGet(p, StoreTail(p))

\* C17 (amended): a lease older than D that names another pod is handled
\* by Clear, Set and a re-verifying Get; one that names the pod itself is
\* first renewed by one Overwrite, which ends the run claimed when it
\* succeeds, and only a failed Overwrite is followed by Clear, Set, Get.
C17_ExpiredByClaimant ==
  \A p \in Pods :
    ReadExpired(p) =>
      IF Claimant(Read(p)) # H(p)
      THEN ClearSetGet(p, StoreTail(p))
      ELSE /\ StoreTail(p) # << >>
           /\ StoreTail(p)[1].op = "Overwrite"
           /\ IF StoreTail(p)[1].ok
              THEN Len(StoreTail(p)) = 1 /\ claimed[p] = "yes"
              ELSE ClearSetGet(p, Tail(StoreTail(p)))

\* The pod's own lease, older than D, renewed by a single Overwrite.
C17_Witness ==
  \E p \in Pods :
    /\ ReadExpired(p)
    /\ Claimant(Read(p)) = H(p)
    /\ TailKinds(p) = << "Overwrite" >>
    /\ claimed[p] = "yes"
    /\ verdict[p] = "ready"

\* --------------------------------------------------------------- C18
\* A finished healthy run whose first Get returned a value that is not
\* empty and has no second field (for example one with no delimiter).
ReadMalformed(p) ==
  /\ Done(p)
  /\ Healthy(p)
  /\ Len(ops[p]) >= 2
  /\ ops[p][2].op = "Get"
  /\ Read(p) # EmptyStr
  /\ ~HasStamp(Read(p))

RenewalFailed(p) ==
  /\ Done(p)
  /\ Healthy(p)
  /\ Len(ops[p]) >= 3
  /\ ops[p][2].op = "Get"
  /\ Read(p) # EmptyStr
  /\ Claimant(Read(p)) = H(p)
  /\ ops[p][3].op = "Overwrite"
  /\ ~ops[p][3].ok

\* C19: a run whose renewal of the pod's own lease failed ends with
\* claimed = false, whatever the age of that lease.
C19_FailedRenewalNotClaimed ==
  \A p \in Pods : RenewalFailed(p) => claimed[p] = "no"

\* --------------------------------------------------------------- C20
\* C20: after a failed Set or Overwrite a run issues no further Set or
\* Overwrite and no Clear.
C20_NoWriteAfterFailedWrite ==
  \A p \in Pods :
    \A i \in Issued(p, {"Set", "Overwrite"}) :
      ~ops[p][i].ok =>
        \A j \in Issued(p, {"Set", "Overwrite", "Clear"}) : j <= i

\* --------------------------------------------------------------- C13
\* In its current run p found the lease v expired, cleared it and set its
\* own claim with success.
TookOver(p, v) ==
  /\ Healthy(p)
  /\ \E i \in Issued(p, {"expired?"}) : ops[p][i].ok /\ ops[p][i].val = v
  /\ Issued(p, {"Clear"}) # {}
  /\ \E i \in Issued(p, {"Set"}) : ops[p][i].ok /\ Claimant(ops[p][i].val) = H(p)

\* The previous holder q has read its own lease and stands before its
\* renewal write, while p has taken that lease over and the store names p.
RaceSetUp(p, q) ==
  /\ p # q
  /\ pc[q] = "extend_put"
  /\ Claimant(CLAIM[q]) = H(q)
  /\ TookOver(p, CLAIM[q])
  /\ lease # EmptyStr
  /\ Claimant(lease) = H(p)

\* C13: whenever a new claimant has taken over the lease that the
\* previous holder read as its own, the previous holder's renewal
\* overwrite can still land, and it leaves the lease naming the previous
\* holder.
C13_OverwriteRestoresHolder ==
  \A p, q \in Pods :
    RaceSetUp(p, q) =>
      ENABLED (/\ extend_put(q)
               /\ ops'[q][Len(ops'[q])].ok
               /\ lease' # EmptyStr
               /\ Claimant(lease') = H(q))

\* The race has happened: q's renewal is the last write, after the Set
\* of p's takeover succeeded, and every run was on time.
C13_Witness ==
  \E p, q \in Pods :
    /\ p # q
    /\ onTime
    /\ Done(q)
    /\ Kinds(q) = << "present", "Get", "Overwrite" >>
    /\ Claimant(Read(q)) = H(q)
    /\ ops[q][3].ok
    /\ TookOver(p, Read(q))
    /\ lease = ops[q][3].val
    /\ Claimant(lease) = H(q)

\* ------------------------------------------- a holder with a fresh lease
\* Seconds watched after the holder's claim, long enough for that claim
\* to outlive D.
StableHorizon == 4

\* Pod 1 has just claimed the lease (line 62), at second Epoch0.
StableInit ==
  /\ SetupIdle
  /\ CodecIdle
  /\ UpdateIdle
  /\ clock = Epoch0
  /\ lease = Encode(H(1), Epoch0)
  /\ pc = [p \in Pods |-> "idle"]
  /\ CLAIM = [p \in Pods |-> EmptyStr]
  /\ C = [p \in Pods |-> EmptyStr]
  /\ wake = [p \in Pods |-> 0]
  /\ claimed = [p \in Pods |-> "n/a"]
  /\ verdict = [p \in Pods |-> "none"]
  /\ ops = [p \in Pods |-> << >>]
  /\ due = [p \in Pods |-> Epoch0 + Interval]
  /\ onTime = TRUE

\* A second passes, up to the end of the given horizon.
TickTo(end) ==
  /\ clock < end \/ \E p \in Pods : pc[p] = "sleep" /\ clock < wake[p]
  /\ clock' = clock + 1
  /\ onTime' = (onTime /\ \A p \in Pods : due[p] > clock)
  /\ UNCHANGED << lease, pc, CLAIM, C, wake, claimed, verdict, ops, due, setupVars, codecVars, updateVars >>

\* The step's kubectl call, if it made one, reached the store: a Get, an
\* Overwrite or a Clear succeeded, and a Set failed only because the
\* annotation was there.
StoreUp ==
  \A p \in Pods :
    (ops'[p] # ops[p] /\ Len(ops'[p]) > 1) =>
      LET e == ops'[p][Len(ops'[p])]
      IN /\ e.op \in {"Get", "Overwrite", "Clear"} => e.ok
         /\ e.op = "Set" => (e.ok \/ lease # EmptyStr)

StableTick == TickTo(Epoch0 + StableHorizon)

\* Every pod is probed on schedule and every kubectl call reaches the
\* store; health and the speed of a run are free.
StableNext ==
  /\ StableTick \/ \E p \in Pods : Start(p) \/ Run(p)
  /\ StoreUp
  /\ onTime'

StableSpec == StableInit /\ [][StableNext]_vars /\ WF_vars(StableNext)

\* --------------------------------------------------------------- C11
\* The health check of h's current run succeeded.
HolderHealthy(h) == ops[h] # << >> => ops[h][1].ok

\* No run is under way in a later second than the one it started in
\* (the one its sleep ended in, for the re-verifying Get).
Prompt ==
  \A p \in Pods :
    pc[p] \notin {"idle", "sleep"} =>
      clock = IF pc[p] = "reget" THEN wake[p] ELSE ops[p][1].at

\* No other pod has seen h's lease expired or written or cleared the
\* lease in its current run, and h's finished run is ready.
StableNow(h) ==
  /\ \A p \in Pods \ {h} :
       /\ \A i \in Issued(p, {"expired?"}) :
            ~(ops[p][i].ok /\ Claimant(ops[p][i].val) = H(h))
       /\ Issued(p, {"Set", "Overwrite", "Clear"}) = {}
  /\ Done(h) => verdict[h] = "ready"

FailoverHorizon == 8

\* A second passes between runs: pod 2 is probed on schedule and no run
\* is under way (a sleeping run apart).
FailoverTick ==
  /\ TickTo(Epoch0 + FailoverHorizon)
  /\ due[2] > clock
  /\ \A p \in Pods : pc[p] \in {"idle", "sleep"}

\* Every kubectl call reaches the store and pod 2 is healthy at each of
\* its runs; the holder's health and schedule are free.
FailoverEnv == StoreUp /\ (ops'[2] # << >> => ops'[2][1].ok)

FailoverNext ==
  /\ FailoverTick \/ \E p \in Pods : Start(p) \/ Run(p)
  /\ FailoverEnv

\* Time passes, pod 2 keeps being probed, and a run that was started runs
\* on; nothing obliges the holder to be probed again.
FailoverSpec ==
  /\ StableInit
  /\ [][FailoverNext]_vars
  /\ WF_vars(FailoverTick /\ FailoverEnv)
  /\ WF_vars(Start(2) /\ FailoverEnv)
  /\ \A p \in Pods : WF_vars(Run(p) /\ FailoverEnv)

\* --------------------------------------------------------------- C12
\* Two probe intervals of the watched time are left.
TimeLeft == clock + 2 * Interval <= Epoch0 + FailoverHorizon

\* The holder's latest run found it unhealthy.
HolderDown == Done(1) /\ ~Healthy(1)

\* The holder's lease has run out without a renewal.
HolderSilent ==
  /\ lease # EmptyStr
  /\ Claimant(lease) = H(1)
  /\ HasStamp(lease)
  /\ clock - ClaimedAt(lease) > D

\* A pod whose latest run was healthy and ended ready is the claimant of
\* a lease that has not run out.
LeaderReady ==
  \E p \in Pods :
    /\ Done(p) /\ Healthy(p) /\ verdict[p] = "ready"
    /\ lease # EmptyStr
    /\ Claimant(lease) = H(p)
    /\ HasStamp(lease)
    /\ clock - ClaimedAt(lease) <= D

C12_TakeoverReached ==
  /\ ops[1] = << >>
  /\ Done(2) /\ verdict[2] = "ready"
  /\ TailKinds(2) = << "Clear", "Set", "Get" >>
  /\ Claimant(lease) = H(2)
  /\ LeaderReady

\* =================================================== part 2: WaitForHost
\* Lookups watched in one WaitForHost.
MaxLookups == 3

\* What the lookup function can return as its error: nil, a *net.DNSError
\* with its flags, or an error of another type.
PlainError(kind) ==
  [kind |-> kind, IsTimeout |-> FALSE, IsTemporary |-> FALSE, IsNotFound |-> FALSE]

DNSErrors ==
  [kind : {"dns"}, IsTimeout : BOOLEAN, IsTemporary : BOOLEAN, IsNotFound : BOOLEAN]

LookupErrors == {PlainError("nil"), PlainError("other")} \cup DNSErrors

\* (*net.DNSError).Temporary of package net: a time-out counts as temporary.
Temporary(e) == e.IsTimeout \/ e.IsTemporary

\* Variant of the switch that retries only an error that is both
\* temporary and not-found.
wait_next_both(e) ==
  CASE e.kind = "nil" -> "return nil"
    [] e.kind = "dns" ->
         IF ~(Temporary(e) /\ e.IsNotFound) THEN "return err" ELSE "sleep"
    [] OTHER -> "return err"

\* The type switch of WaitForHost (resolver.go 16-26).
wait_next(e) ==
  CASE e.kind = "nil" -> "return nil"
    [] e.kind = "dns" ->
         IF ~(Temporary(e) \/ e.IsNotFound) THEN "return err" ELSE "sleep"
    [] OTHER -> "return err"

\* One pass of the loop: net.LookupHost (w.HostLookuper) and the switch.
wait_lookup ==
  /\ wpc = "lookup"
  /\ Len(outcomes) < MaxLookups
  /\ \E e \in LookupErrors :
       /\ flaky \/ ~(e.kind = "dns" /\ (Temporary(e) \/ e.IsNotFound))
       /\ outcomes' = Append(outcomes, e)
       /\ IF wait_next(e) = "sleep"
          THEN wpc' = "sleep" /\ UNCHANGED waitErr
          ELSE wpc' = "returned" /\ waitErr' = e
  /\ UNCHANGED << ctxDoneAt, flaky, requester, host, sleeps, mode, step, groupID, requests, err,
                  groups, bound, probeVars, codecVars, updateVars >>

\* Variant of the sleep that selects on ctx.Done () and returns ctx.Err ().
wait_sleep_ctx ==
  /\ wpc = "sleep"
  /\ sleeps' = sleeps + 1
  /\ IF ctxDoneAt >= 0
     THEN wpc' = "returned" /\ waitErr' = PlainError("other")
     ELSE wpc' = "lookup" /\ UNCHANGED waitErr
  /\ UNCHANGED << ctxDoneAt, flaky, requester, host, outcomes, mode, step, groupID,
                  requests, err, groups, bound, probeVars, codecVars, updateVars >>

\* time.Sleep (10 * time.Second), time.Sleep (w.Duration).
wait_sleep ==
  /\ wpc = "sleep"
  /\ sleeps' = sleeps + 1
  /\ wpc' = "lookup"
  /\ UNCHANGED << ctxDoneAt, flaky, requester, host, outcomes, waitErr, mode, step, groupID,
                  requests, err, groups, bound, probeVars, codecVars, updateVars >>

\* process (), main.go 60-65: after the token host, the CC host.
wait_for_cc ==
  /\ host = "uaa"
  /\ wpc = "returned"
  /\ waitErr.kind = "nil"
  /\ host' = "cc"
  /\ wpc' = "lookup"
  /\ outcomes' = << >>
  /\ sleeps' = 0
  /\ waitErr' = PlainError("none")
  /\ UNCHANGED << ctxDoneAt, flaky, requester, mode, step, groupID, requests, err, groups,
                  bound, probeVars, codecVars, updateVars >>

\* ============================================ part 2: the security group
\* The cloud controller holds the GUIDs of the groups that carry our name
\* (groups) and, per lifecycle, the GUIDs bound as defaults (bound).
Lifecycles == {"running", "staging"}

Has(g) == \E i \in 1..Len(groups) : groups[i] = g

\* The GUID the controller gives to the next group it creates.
Fresh == IF Has("g1") THEN "g2" ELSE "g1"

Without(g) == SelectSeq(groups, LAMBDA x : x # g)

\* A response: the transport failed (fail), or a status code and a body,
\* which is empty, one group object, or a list of resources.
Reply(code, kind, guid, resources) ==
  [fail |-> FALSE, code |-> code, kind |-> kind, guid |-> guid,
   resources |-> resources]

Unreachable ==
  [fail |-> TRUE, code |-> 0, kind |-> "empty", guid |-> "", resources |-> << >>]

\* A request either reaches a working controller, or never arrives, or is
\* answered with a status that is no success (by the controller or by
\* something in front of it), with no body and nothing changed.
Ways == {"served", "unreachable", "101", "400", "404", "500"}

RefusedCode(how) ==
  CASE how = "101" -> 101
    [] how = "400" -> 400
    [] how = "404" -> 404
    [] OTHER -> 500

Answer(how, served) ==
  CASE how = "served" -> served
    [] how = "unreachable" -> Unreachable
    [] OTHER -> Reply(RefusedCode(how), "empty", "", << >>)

\* The answer to GET /v2/security_groups?q=name:<name>; the controller
\* may list a group of another name first.
Listing(decoy) ==
  Reply(200, "list", "",
        (IF decoy THEN << [name |-> "other", guid |-> "g0"] >> ELSE << >>)
        \o [i \in 1..Len(groups) |-> [name |-> "ours", guid |-> groups[i]]])

\* json.Decoder.Decode into a SecurityGroupDefinition.
decode_single(r) ==
  CASE r.kind = "empty" -> [ok |-> FALSE, guid |-> ""]
    [] r.kind = "single" -> [ok |-> TRUE, guid |-> r.guid]
    [] OTHER -> [ok |-> TRUE, guid |-> ""]

\* The loop over responseData.Resources: the first one with our name.
RECURSIVE first_named(_)
first_named(rs) ==
  IF rs = << >> THEN ""
  ELSE IF Head(rs).name = "ours" THEN Head(rs).guid
  ELSE first_named(Tail(rs))

\* json.Decoder.Decode into the list of resources, then the loop.
decode_list(r) ==
  CASE r.kind = "empty" -> [ok |-> FALSE, guid |-> ""]
    [] r.kind = "list" -> [ok |-> TRUE, guid |-> first_named(r.resources)]
    [] OTHER -> [ok |-> TRUE, guid |-> ""]

\* Variant of status_of without the case for 404.
status_of_no_404(r) ==
  IF r.fail THEN "error"
  ELSE IF r.code < 200 \/ r.code >= 400 THEN "error"
  ELSE "decode"

\* What both requesters do with the response before decoding it;
\* "decode" stands for going on to the decoder.
status_of(r) ==
  IF r.fail THEN "error"
  ELSE IF r.code = 404 THEN "not found"
  ELSE IF r.code < 200 \/ r.code >= 400 THEN "error"
  ELSE "decode"

\* (*SecurityGroupBuilder).makeSecurityGroupRequest of secgroup.go: the
\* decoder is chosen by the GUID the request was made for.
makeSecurityGroupRequest(guid, method, r) ==
  CASE status_of(r) = "error" -> [ok |-> FALSE, guid |-> ""]
    [] status_of(r) = "not found" -> [ok |-> TRUE, guid |-> ""]
    [] OTHER -> IF guid # "" THEN decode_single(r) ELSE decode_list(r)

\* (*SecurityGroupBuilder).defaultRequester: the decoder is chosen by the
\* method of the request.
defaultRequester(guid, method, r) ==
  CASE status_of(r) = "error" -> [ok |-> FALSE, guid |-> ""]
    [] status_of(r) = "not found" -> [ok |-> TRUE, guid |-> ""]
    [] OTHER ->
         CASE method = "GET" -> decode_list(r)
           [] method = "DELETE" -> [ok |-> TRUE, guid |-> ""]
           [] OTHER -> decode_single(r)

request(guid, method, r) ==
  IF requester = "makeSecurityGroupRequest"
  THEN makeSecurityGroupRequest(guid, method, r)
  ELSE defaultRequester(guid, method, r)

\* An entry of the log of requests: what was sent, what came back, and
\* what the requesting function returned (ok: a nil error; got: the GUID).
Sent(method, path, guid, reply, res) ==
  [method |-> method, path |-> path, guid |-> guid, reply |-> reply,
   ok |-> res.ok, got |-> res.guid]

\* process (): once both hosts resolve, Apply or Remove is called.
call ==
  /\ host = "cc"
  /\ wpc = "returned"
  /\ waitErr.kind = "nil"
  /\ mode = "none"
  /\ mode' \in {"Apply", "Remove"}
  /\ step' = "groupGUID"
  /\ UNCHANGED << ctxDoneAt, flaky, requester, host, wpc, outcomes, sleeps, waitErr, groupID,
                  requests, err, groups, bound, probeVars, codecVars, updateVars >>

\* Remove after the lookup: nothing to delete when no group was found.
remove_next_always_delete(g) == "delete"

remove_next(g) == IF g = "" THEN "return nil" ELSE "delete"

\* groupGUID (): the lookup by name that opens both Apply and Remove.
groupGUID ==
  /\ step = "groupGUID"
  /\ \E how \in Ways, decoy \in BOOLEAN :
       LET reply == Answer(how, Listing(decoy))
           res == request("", "GET", reply)
       IN /\ requests' = Append(requests,
                 Sent("GET", "/v2/security_groups?q=name", "", reply, res))
          /\ groupID' = res.guid
          /\ IF ~res.ok
             THEN step' = "returned" /\ err' = "error"
             ELSE IF mode = "Apply"
             THEN step' = "write" /\ UNCHANGED err
             ELSE IF remove_next(res.guid) = "return nil"
             THEN step' = "returned" /\ err' = "nil"
             ELSE step' = "delete" /\ UNCHANGED err
  /\ UNCHANGED << ctxDoneAt, flaky, requester, host, wpc, outcomes, sleeps, waitErr, mode,
                  groups, bound, probeVars, codecVars, updateVars >>

\* Apply: POST without a GUID creates, PUT with the GUID updates.
apply_method_always_post(g) == "POST"

apply_method(g) == IF g = "" THEN "POST" ELSE "PUT"

\* Apply, the request that creates or updates the group.
apply_write ==
  /\ step = "write"
  /\ \E how \in Ways :
       LET method == apply_method(groupID)
           served == IF method = "POST" THEN Reply(201, "single", Fresh, << >>)
                     ELSE IF Has(groupID)
                     THEN Reply(201, "single", groupID, << >>)
                     ELSE Reply(404, "empty", "", << >>)
           reply == Answer(how, served)
           res == request(groupID, method, reply)
       IN /\ requests' = Append(requests,
                 Sent(method, "/v2/security_groups", groupID, reply, res))
          /\ groups' = IF how = "served" /\ method = "POST"
                       THEN Append(groups, Fresh) ELSE groups
          /\ groupID' = res.guid
          /\ IF ~res.ok
             THEN step' = "returned" /\ err' = "error"
             ELSE step' = "bind_running" /\ UNCHANGED err
  /\ UNCHANGED << ctxDoneAt, flaky, requester, host, wpc, outcomes, sleeps, waitErr, mode,
                  bound, probeVars, codecVars, updateVars >>

\* Variant of apply_bind without the `if err != nil { return err }`
\* inside the loop over the lifecycles.
apply_bind_goes_on(l) ==
  /\ step = "bind_" \o l
  /\ \E how \in Ways :
       LET served == IF Has(groupID) THEN Reply(204, "empty", "", << >>)
                     ELSE Reply(404, "empty", "", << >>)
           reply == Answer(how, served)
           ok == ~reply.fail /\ ~(reply.code < 200 \/ reply.code >= 400)
       IN /\ requests' = Append(requests,
                 Sent("PUT", "/v2/config/" \o l \o "_security_groups", groupID,
                      reply, [ok |-> ok, guid |-> ""]))
          /\ bound' = IF how = "served" /\ Has(groupID)
                      THEN [bound EXCEPT ![l] = @ \cup {groupID}] ELSE bound
          /\ IF l = "running"
             THEN step' = "bind_staging" /\ UNCHANGED err
             ELSE step' = "returned" /\ err' = "nil"
  /\ UNCHANGED << ctxDoneAt, flaky, requester, host, wpc, outcomes, sleeps, waitErr, mode,
                  groupID, groups, probeVars, codecVars, updateVars >>

\* bindDefaultSecurityGroups (lifecycle, groupID).
apply_bind(l) ==
  /\ step = "bind_" \o l
  /\ \E how \in Ways :
       LET served == IF Has(groupID) THEN Reply(204, "empty", "", << >>)
                     ELSE Reply(404, "empty", "", << >>)
           reply == Answer(how, served)
           ok == ~reply.fail /\ ~(reply.code < 200 \/ reply.code >= 400)
       IN /\ requests' = Append(requests,
                 Sent("PUT", "/v2/config/" \o l \o "_security_groups", groupID,
                      reply, [ok |-> ok, guid |-> ""]))
          /\ bound' = IF how = "served" /\ Has(groupID)
                      THEN [bound EXCEPT ![l] = @ \cup {groupID}] ELSE bound
          /\ IF ~ok
             THEN step' = "returned" /\ err' = "error"
             ELSE IF l = "running"
             THEN step' = "bind_staging" /\ UNCHANGED err
             ELSE step' = "returned" /\ err' = "nil"
  /\ UNCHANGED << ctxDoneAt, flaky, requester, host, wpc, outcomes, sleeps, waitErr, mode,
                  groupID, groups, probeVars, codecVars, updateVars >>

\* Remove, the DELETE of the group that the lookup found.
remove_delete ==
  /\ step = "delete"
  /\ \E how \in Ways :
       LET served == IF Has(groupID) THEN Reply(204, "empty", "", << >>)
                     ELSE Reply(404, "empty", "", << >>)
           reply == Answer(how, served)
           res == request(groupID, "DELETE", reply)
       IN /\ requests' = Append(requests,
                 Sent("DELETE", "/v2/security_groups", groupID, reply, res))
          /\ groups' = IF how = "served" THEN Without(groupID) ELSE groups
          /\ bound' = IF how = "served"
                      THEN [l \in Lifecycles |-> bound[l] \ {groupID}]
                      ELSE bound
          /\ step' = "returned"
          /\ err' = IF res.ok THEN "nil" ELSE "error"
  /\ UNCHANGED << ctxDoneAt, flaky, requester, host, wpc, outcomes, sleeps, waitErr, mode,
                  groupID, probeVars, codecVars, updateVars >>

\* The command started: nothing looked up yet, either requester built in,
\* the controller with or without a group of our name.
SetupInit ==
  /\ CodecIdle
  /\ UpdateIdle
  /\ clock = Epoch0
  /\ lease = EmptyStr
  /\ pc = [p \in Pods |-> "idle"]
  /\ CLAIM = [p \in Pods |-> EmptyStr]
  /\ C = [p \in Pods |-> EmptyStr]
  /\ wake = [p \in Pods |-> 0]
  /\ claimed = [p \in Pods |-> "n/a"]
  /\ verdict = [p \in Pods |-> "none"]
  /\ ops = [p \in Pods |-> << >>]
  /\ due = [p \in Pods |-> Epoch0 + Interval - 1]
  /\ onTime = TRUE
  /\ requester \in {"makeSecurityGroupRequest", "defaultRequester"}
  /\ ctxDoneAt = -1
  /\ flaky = TRUE
  /\ host = "uaa"
  /\ wpc = "lookup"
  /\ outcomes = << >>
  /\ sleeps = 0
  /\ waitErr = PlainError("none")
  /\ mode = "none"
  /\ step = "idle"
  /\ groupID = ""
  /\ requests = << >>
  /\ err = "none"
  /\ groups \in {<< >>, << "g1" >>}
  /\ bound = [l \in Lifecycles |-> {}]

SetupNext ==
  \/ wait_lookup
  \/ wait_sleep
  \/ wait_for_cc
  \/ call
  \/ groupGUID
  \/ apply_write
  \/ \E l \in Lifecycles : apply_bind(l)
  \/ remove_delete

SetupSpec == SetupInit /\ [][SetupNext]_vars

SetupTypeOK ==
  /\ wpc \in {"lookup", "sleep", "returned"}
  /\ step \in {"idle", "groupGUID", "write", "bind_running", "bind_staging",
               "delete", "returned"}
  /\ Len(requests) <= 4
  /\ Len(groups) <= 2

\* ------------------------------------------------------------------ C16
\* The lookup errors after which WaitForHost looks up again.
Retried(e) == e.kind = "dns" /\ (Temporary(e) \/ e.IsNotFound)

\* C16: WaitForHost returns nil at the first lookup that succeeds; every
\* lookup that fails with a temporary or not-found DNS error is followed by
\* one sleep and another lookup; any other DNS error and any error of
\* another type is returned at once, with no lookup after it.
C16_RetryClassification ==
  /\ \A i \in 1..(Len(outcomes) - 1) : Retried(outcomes[i])
  /\ wpc = "lookup" => sleeps = Len(outcomes)
  /\ wpc = "sleep" =>
       /\ outcomes # << >>
       /\ Retried(outcomes[Len(outcomes)])
       /\ sleeps = Len(outcomes) - 1
  /\ wpc = "returned" =>
       /\ outcomes # << >>
       /\ ~Retried(outcomes[Len(outcomes)])
       /\ waitErr = outcomes[Len(outcomes)]
       /\ sleeps = Len(outcomes) - 1

\* A wait that slept after a temporary error and after a not-found error and
\* then returned nil at the third lookup.
C16_Witness ==
  /\ wpc = "returned"
  /\ waitErr.kind = "nil"
  /\ Len(outcomes) = 3
  /\ sleeps = 2
  /\ Temporary(outcomes[1]) /\ ~outcomes[1].IsNotFound
  /\ outcomes[2].IsNotFound /\ ~Temporary(outcomes[2])

\* A wait that returned an error which is a DNS error, but neither temporary
\* nor not-found, after one retry.
C16_ReturnedDNSError ==
  /\ wpc = "returned"
  /\ waitErr.kind = "dns"
  /\ Len(outcomes) = 2

\* ------------------------------------------------------------------ C14
IsLookup(r) == r.method = "GET" /\ r.path = "/v2/security_groups?q=name"

IsBind(r, l) ==
  r.method = "PUT" /\ r.path = "/v2/config/" \o l \o "_security_groups"

\* The GUID of the group that Apply's second request created or updated:
\* the one the PUT was addressed to, or the one the controller assigned in
\* its reply to the POST.
Resulting ==
  IF requests[2].method = "PUT" THEN requests[2].guid
  ELSE requests[2].reply.guid

ApplyCase == mode = "Apply" /\ step = "returned"

\* The requests of one Apply in their places, each made only after the one
\* before it returned no error; bindGUID is the GUID the binds carry.
ApplyOrder(bindGUID) ==
  /\ Len(requests) <= 4
  /\ Len(requests) >= 1 => IsLookup(requests[1])
  /\ Len(requests) >= 2 =>
       /\ requests[1].ok
       /\ requests[2].path = "/v2/security_groups"
       /\ IF requests[1].got = ""
          THEN requests[2].method = "POST" /\ requests[2].guid = ""
          ELSE requests[2].method = "PUT" /\ requests[2].guid = requests[1].got
  /\ Len(requests) >= 3 =>
       /\ requests[2].ok
       /\ IsBind(requests[3], "running")
       /\ requests[3].guid = bindGUID
  /\ Len(requests) >= 4 =>
       /\ requests[3].ok
       /\ IsBind(requests[4], "staging")
       /\ requests[4].guid = bindGUID

\* C14: Apply looks the group up by name; then POSTs a new group when the
\* lookup returned no GUID, or PUTs to the returned GUID when it did; then
\* binds the resulting GUID for running and then for staging; when Apply
\* returns nil both lifecycles are bound to that one GUID.
C14_ApplyOrder ==
  mode = "Apply" =>
    /\ ApplyOrder(IF Len(requests) >= 2 THEN Resulting ELSE "")
    /\ err = "nil" =>
         /\ Len(requests) = 4
         /\ Resulting # ""
         /\ \A l \in Lifecycles : Resulting \in bound[l]

\* What Apply does hold to with either requester: the order of the
\* requests, with the binds carrying whatever GUID the second request
\* returned to Apply.
C14_OrderWithReturnedGUID ==
  mode = "Apply" =>
    /\ ApplyOrder(IF Len(requests) >= 2 THEN requests[2].got ELSE "")
    /\ err = "nil" => Len(requests) = 4

\* With the requester that decodes by method, the claim holds as long as
\* the group found is still there when the PUT arrives (no 404).
C14_HoldsForDefaultRequester ==
  (/\ requester = "defaultRequester"
   /\ Len(requests) >= 2 => requests[2].reply.code # 404) => C14_ApplyOrder

\* An Apply that found no group, had its POST answered with the new group,
\* and went on to bind.
C14_CreatedThenBound ==
  /\ mode = "Apply"
  /\ Len(requests) >= 3
  /\ requests[2].method = "POST"
  /\ requests[2].reply.guid = "g1"

\* ------------------------------------------------------------------ C15
RemoveCase == mode = "Remove" /\ step = "returned"

\* C15: Remove, when its lookup finds no group, makes no further request
\* and returns nil; when the lookup finds a group it makes exactly one
\* DELETE, for that GUID; it makes no create, update or bind request.
C15_RemoveRequests ==
  mode = "Remove" =>
    /\ Len(requests) >= 1 => IsLookup(requests[1])
    /\ \A i \in 2..Len(requests) : requests[i].method = "DELETE"
    /\ RemoveCase /\ requests[1].ok /\ requests[1].got = "" =>
         Len(requests) = 1 /\ err = "nil"
    /\ RemoveCase /\ requests[1].ok /\ requests[1].got # "" =>
         /\ Len(requests) = 2
         /\ requests[2].path = "/v2/security_groups"
         /\ requests[2].guid = requests[1].got
    /\ RemoveCase /\ ~requests[1].ok => Len(requests) = 1 /\ err = "error"
    /\ step = "delete" => requests[1].ok /\ requests[1].got # ""

\* A Remove that found the group behind a group of another name and
\* deleted it.
C15_Witness ==
  /\ RemoveCase
  /\ Len(requests[1].reply.resources) = 2
  /\ requests[1].got = "g1"
  /\ Len(requests) = 2
  /\ requests[2].reply.code = 204
  /\ ~Has("g1")

\* A Remove that found nothing and returned nil after the lookup alone.
C15_NothingToRemove ==
  /\ RemoveCase
  /\ Len(requests) = 1
  /\ requests[1].reply.code = 200
  /\ err = "nil"

\* --------------------------------------------------------------- C21
\* The last n entries of p's history.
LastOps(p, n) == SubSeq(ops[p], Len(ops[p]) - n + 1, Len(ops[p]))

LastKinds(p, n) == [i \in 1 .. n |-> LastOps(p, n)[i].op]

\* p's run went the takeover path to its end: Clear, Set, second Get.
Reverified(p) ==
  /\ Len(ops[p]) >= 6
  /\ Healthy(p)
  /\ LastKinds(p, 3) = << "Clear", "Set", "Get" >>

\* p's Set was stored, and by the time of the second Get the store held
\* something else: a write of another pod landed in between.
EarlyOverwrite(p) ==
  /\ Reverified(p)
  /\ LastOps(p, 2)[1].ok
  /\ LastOps(p, 2)[2].ok
  /\ LastOps(p, 2)[2].val # LastOps(p, 2)[1].val

\* C21: a takeover whose Set was stored but whose second Get, after the
\* grace delay, finds the store changed by another pod ends with claim ()
\* failing and the verdict not-ready; the Get is the last call of the run.
C21_GraceCatchesOverwrite ==
  \A p \in Pods :
    EarlyOverwrite(p) =>
      /\ Done(p)
      /\ claimed[p] = "no"
      /\ verdict[p] = "not-ready"
      /\ ~our_claim(p, LastOps(p, 1)[1].val)
      /\ lease # EmptyStr => ~our_claim(p, lease)

\* The previous holder's renewal landed during the grace delay: the second
\* Get returned the value that the other pod's overwrite had stored.
C21_Witness ==
  \E p, q \in Pods :
    /\ p # q
    /\ EarlyOverwrite(p)
    /\ Claimant(Read(p)) = H(q)
    /\ ops[q] # << >>
    /\ LastOps(q, 1)[1].op = "Overwrite"
    /\ LastOps(q, 1)[1].ok
    /\ LastOps(q, 1)[1].val = LastOps(p, 1)[1].val
    /\ lease = LastOps(p, 1)[1].val

\* --------------------------------------------------------------- C22
\* p stands before the claim write of a takeover and the store holds a
\* claim of another pod.
Contested(p) ==
  /\ pc[p] = "take_put"
  /\ lease # EmptyStr
  /\ ~our_claim(p, lease)

\* C22: the claim write of a takeover that finds another pod's claim
\* stored fails and leaves that claim; claim () returns failure with the
\* write as the last call of the run (no second Get).
C22_TakeoverDoesNotContest ==
  [][\A p \in Pods :
       (Contested(p) /\ pc'[p] # pc[p]) =>
         /\ lease' = lease
         /\ pc'[p] = "idle"
         /\ claimed'[p] = "no"
         /\ verdict'[p] = "not-ready"
         /\ ops'[p][Len(ops'[p])].op = "Set"
         /\ ~ops'[p][Len(ops'[p])].ok
         /\ Len(ops'[p]) = Len(ops[p]) + 1]_vars

\* A takeover whose Clear emptied the store and whose Set then found the
\* claim that the other pod had set meanwhile.
C22_Witness ==
  \E p, q \in Pods :
    /\ p # q
    /\ Done(p)
    /\ Len(ops[p]) >= 5
    /\ LastKinds(p, 2) = << "Clear", "Set" >>
    /\ LastOps(p, 2)[1].ok
    /\ ~LastOps(p, 2)[2].ok
    /\ claimed[p] = "no"
    /\ lease # EmptyStr
    /\ Claimant(lease) = H(q)
    /\ \E i \in 1 .. Len(ops[q]) :
         ops[q][i].op = "Set" /\ ops[q][i].ok /\ ops[q][i].val = lease

\* --------------------------------------------------------------- C23
\* p's health check failed and its Get returned nothing or a lease that
\* names another pod.
UnhealthyNonHolder(p) ==
  /\ Len(ops[p]) >= 2
  /\ ~Healthy(p)
  /\ ops[p][2].op = "Get"
  /\ Read(p) = EmptyStr \/ Claimant(Read(p)) # H(p)

\* C23: a run whose health check fails and whose Get returns no lease or
\* a lease of another claimant, fresh or expired, ends after that Get,
\* not-ready, without a Clear, a Set or an overwrite.
C23_UnhealthyNonHolderIdle ==
  \A p \in Pods :
    UnhealthyNonHolder(p) =>
      /\ Done(p)
      /\ Len(ops[p]) = 2
      /\ Issued(p, {"Clear", "Set", "Overwrite"}) = {}
      /\ claimed[p] = "n/a"
      /\ verdict[p] = "not-ready"

\* The lease read names the other pod and is expired, and it is still
\* stored when the run has ended.
C23_Witness ==
  \E p \in Pods :
    /\ UnhealthyNonHolder(p)
    /\ ops[p][2].ok
    /\ Read(p) # EmptyStr
    /\ HasStamp(Read(p))
    /\ ops[p][1].at - ClaimedAt(Read(p)) > D
    /\ lease = Read(p)
    /\ Done(p)

\* The same with a lease that is not expired.
C23_FreshReached ==
  \E p \in Pods :
    /\ UnhealthyNonHolder(p)
    /\ Read(p) # EmptyStr
    /\ HasStamp(Read(p))
    /\ ops[p][1].at - ClaimedAt(Read(p)) <= D
    /\ lease = Read(p)

\* --------------------------------------------------------------- C24
\* The Clear at place i of p's run is the release of an unhealthy holder:
\* the health check failed and the Get returned a lease naming p.
ReleaseAt(p, i) ==
  /\ ~Healthy(p)
  /\ i = 3
  /\ ops[p][2].op = "Get"
  /\ Read(p) # EmptyStr
  /\ Claimant(Read(p)) = H(p)

\* The Clear at place i of p's run follows at once on is_expired finding
\* the lease read expired.
AfterExpiredAt(p, i) ==
  /\ Healthy(p)
  /\ i >= 4
  /\ ops[p][i - 1].op = "expired?"
  /\ ops[p][i - 1].ok
  /\ ops[p][i - 1].val = Read(p)
  /\ Read(p) # EmptyStr

\* No write of a claim by p's run has failed before place i, and there
\* was no Get but the first.
NoLostAttemptBefore(p, i) ==
  \A j \in 1 .. (i - 1) :
    /\ ops[p][j].op \in {"Set", "Overwrite"} => ops[p][j].ok
    /\ ops[p][j].op = "Get" => j = 2

\* C24: a Clear is issued only by an unhealthy pod whose Get returned a
\* lease naming it, or by a healthy pod as the first call of the takeover
\* of a lease it read as expired; never after the pod's own claim write
\* failed or its second Get named another pod, never for a lease read as
\* unexpired.
C24_ClearOnlyToReleaseOrTakeOver ==
  \A p \in Pods :
    \A i \in Issued(p, {"Clear"}) :
      \/ ReleaseAt(p, i)
      \/ /\ AfterExpiredAt(p, i)
         /\ i = 4
         /\ NoLostAttemptBefore(p, i)

\* What holds of every Clear: it is the release of an unhealthy holder, or
\* it follows at once on is_expired being true of the lease read; no Set
\* and no second Get comes before it in the run.
C24_ClearAfterExpiredOrRelease ==
  \A p \in Pods :
    \A i \in Issued(p, {"Clear"}) :
      \/ ReleaseAt(p, i)
      \/ /\ AfterExpiredAt(p, i)
         /\ \A j \in 1 .. (i - 1) :
              /\ ops[p][j].op # "Set"
              /\ ops[p][j].op = "Get" => j = 2

\* A Clear issued after the pod's own renewal write failed.
C24_ClearAfterFailedRenewal ==
  \E p \in Pods :
    \E i \in Issued(p, {"Clear"}) :
      /\ Healthy(p)
      /\ i = 5
      /\ ops[p][3].op = "Overwrite"
      /\ ~ops[p][3].ok

\* --------------------------------------------------------------- C25
\* Only p has run since the model started watching, p is healthy, and its
\* Get returned a lease naming p: p is the uncontested claimant.
Uncontested(p) ==
  /\ \A q \in Pods \ {p} : ops[q] = << >>
  /\ Len(ops[p]) >= 2
  /\ Healthy(p)
  /\ ops[p][2].ok
  /\ Read(p) # EmptyStr
  /\ Claimant(Read(p)) = H(p)

\* C25: while a healthy claimant is the only pod that runs, the stored
\* lease keeps naming it; only the timestamp changes, to the second of
\* the latest renewal.
C25_RenewalKeepsClaimant ==
  \A p \in Pods :
    Uncontested(p) =>
      /\ lease # EmptyStr
      /\ Claimant(lease) = H(p)
      /\ lease = Read(p) \/ SelfNow(p, lease)

\* What holds: as long as no kubectl call of the run has failed, the
\* lease names the claimant, and after the run it carries a second of
\* that run.
C25_KeepsClaimantWhileStoreAccepts ==
  \A p \in Pods :
    (Uncontested(p) /\ ~SomeStoreOpFailed(p)) =>
      /\ lease # EmptyStr
      /\ Claimant(lease) = H(p)
      /\ lease = Read(p) \/ SelfNow(p, lease)
      /\ Done(p) => SelfNow(p, lease) /\ Len(ops[p]) = 3 /\ claimed[p] = "yes"

\* An uncontested claimant's run after which no lease is stored.
C25_LeaseLost ==
  \E p \in Pods :
    /\ Uncontested(p)
    /\ Done(p)
    /\ HasStamp(Read(p))
    /\ lease = EmptyStr

\* An uncontested renewal that moved the timestamp forward.
C25_Renewed ==
  \E p \in Pods :
    /\ Uncontested(p)
    /\ Done(p)
    /\ HasStamp(Read(p))
    /\ SelfNow(p, lease)
    /\ ClaimedAt(lease) > ClaimedAt(Read(p))

\* --------------------------------------------------------------- C26
IsDigits(s) == s # EmptyStr /\ \A i \in 1 .. Len(s) : \E d \in 1 .. 10 : s[i] = Dig[d]

\* v is "<host name of a pod>:<decimal seconds>".
WellFormed(v) ==
  /\ \E p \in Pods : Claimant(v) = H(p)
  /\ IsDigits(awkField(v, 2))
  /\ Len(v) = Len(Claimant(v)) + 1 + Len(awkField(v, 2))

AbsentOrWellFormed(v) == v = EmptyStr \/ WellFormed(v)

\* The step appends a claim write (make_claim or extend_claim) to p's
\* history.
Writes(p) ==
  /\ Len(ops'[p]) = Len(ops[p]) + 1
  /\ ops'[p][Len(ops'[p])].op \in {"Set", "Overwrite"}

Written(p) == ops'[p][Len(ops'[p])]

\* C26: every value a pod writes is "<its own host name>:<a second of its
\* run, not after the write>"; a write that is accepted stores that
\* value; the stored value changes only by such a write or by a Clear; so
\* an absent or well-formed lease stays absent or well-formed, naming the
\* pod that last wrote it.
C26_LeaseWellFormed ==
  [][/\ \A p \in Pods :
          Writes(p) =>
            /\ WellFormed(Written(p).val)
            /\ Claimant(Written(p).val) = H(p)
            /\ \E t \in ops[p][1].at .. clock : Written(p).val = Encode(H(p), t)
            /\ Written(p).ok => lease' = Written(p).val
            /\ ~Written(p).ok => lease' = lease
     /\ lease' # lease =>
          \/ lease' = EmptyStr
          \/ \E p \in Pods : Writes(p) /\ Written(p).ok
     /\ AbsentOrWellFormed(lease) => AbsentOrWellFormed(lease')]_vars

\* Both pods have written; the stored lease is the later write, that of
\* the second pod, and names it.
C26_Witness ==
  \E p, q \in Pods :
    /\ p # q
    /\ \E i \in 1 .. Len(ops[p]) : ops[p][i].op \in {"Set", "Overwrite"} /\ ops[p][i].ok
    /\ ops[q] # << >>
    /\ LastOps(q, 1)[1].op \in {"Set", "Overwrite"}
    /\ LastOps(q, 1)[1].ok
    /\ lease = LastOps(q, 1)[1].val
    /\ WellFormed(lease)
    /\ Claimant(lease) = H(q)

\* ====================================================== the wire format
\* Longest host name tried, and largest second tried.
MaxIdentLen == 2
MaxEpoch == 12

\* The characters host names are made of here, and the delimiter.
IdentChars == {"p", "1", "-"}

RECURSIVE StringsUpTo(_, _)
StringsUpTo(chars, n) ==
  IF n = 0 THEN {EmptyStr}
  ELSE LET shorter == StringsUpTo(chars, n - 1)
       IN shorter \cup {Append(s, c) : s \in shorter, c \in chars}

\* Host names with and without a ':' in them.
Identities == StringsUpTo(IdentChars \cup {":"}, MaxIdentLen)

\* The seconds tried: every value up to MaxEpoch, and one of four digits.
Epochs == (0 .. MaxEpoch) \cup {1000}

CodecInit ==
  /\ SetupIdle
  /\ UpdateIdle
  /\ clock = Epoch0
  /\ lease = EmptyStr
  /\ pc = [p \in Pods |-> "idle"]
  /\ CLAIM = [p \in Pods |-> EmptyStr]
  /\ C = [p \in Pods |-> EmptyStr]
  /\ wake = [p \in Pods |-> 0]
  /\ claimed = [p \in Pods |-> "n/a"]
  /\ verdict = [p \in Pods |-> "none"]
  /\ ops = [p \in Pods |-> << >>]
  /\ due = [p \in Pods |-> Epoch0 + Interval - 1]
  /\ onTime = TRUE
  /\ ident \in Identities
  /\ epoch \in Epochs
  /\ wire = EmptyStr
  /\ CLAIMANT = EmptyStr
  /\ CLAIMSECS = EmptyStr
  /\ cpc = "form"

\* Lines 43 and 49: C=${H}:$(now)
codec_form ==
  /\ cpc = "form"
  /\ wire' = Encode(ident, epoch)
  /\ cpc' = "claimant"
  /\ UNCHANGED << ident, epoch, CLAIMANT, CLAIMSECS, probeVars, setupVars, updateVars >>

\* Line 30: CLAIMANT=$(echo $CLAIM | awk -F: '{ print $1 }')
codec_claimant ==
  /\ cpc = "claimant"
  /\ CLAIMANT' = awkField(wire, 1)
  /\ cpc' = "claimsec"
  /\ UNCHANGED << ident, epoch, wire, CLAIMSECS, probeVars, setupVars, updateVars >>

\* Line 36: CLAIMSEC=$(echo $CLAIM | awk -F: '{ print $2 }')
codec_claimsec ==
  /\ cpc = "claimsec"
  /\ CLAIMSECS' = awkField(wire, 2)
  /\ cpc' = "read"
  /\ UNCHANGED << ident, epoch, wire, CLAIMANT, probeVars, setupVars, updateVars >>

CodecNext == codec_form \/ codec_claimant \/ codec_claimsec

CodecSpec == CodecInit /\ [][CodecNext]_vars

\* ------------------------------------------------------------------ C27
NoDelimiter(s) == \A i \in 1 .. Len(s) : s[i] # ":"

\* C27: for every host name without ':' and every second from 0 on, the
\* value "<host name>:<second>" read back gives that host name as the
\* claimant and that second as the claim time.
C27_RoundTrip ==
  (cpc = "read" /\ NoDelimiter(ident)) =>
    /\ CLAIMANT = ident
    /\ CLAIMSECS = DecStr(epoch)
    /\ shellInt(CLAIMSECS) = epoch

\* The example of the specification in small: a host name with a hyphen
\* and a second of four digits.
C27_Witness ==
  /\ cpc = "read"
  /\ ident = << "p", "-" >>
  /\ epoch = 1000
  /\ wire = << "p", "-", ":", "1", "0", "0", "0" >>
  /\ CLAIMANT = ident
  /\ shellInt(CLAIMSECS) = 1000

\* A host name with a ':' does not come back: the premise is needed.
C27_DelimiterBreaks ==
  /\ cpc = "read"
  /\ ~NoDelimiter(ident)
  /\ CLAIMANT # ident

\* --------------------------------------------------------------- C30
\* The places of p's run at which a write of "p:<a second of the run>"
\* was accepted.
OwnWrites(p) ==
  {i \in Issued(p, {"Set", "Overwrite"}) : ops[p][i].ok /\ SelfNow(p, ops[p][i].val)}

\* C30: a run that ends ready contains an accepted write of "self:now";
\* when it went the takeover path (it issued a Clear) its last call is a
\* Get after that write which returned a lease naming the pod.
C30_ReadyOnlyAfterOwnWrite ==
  \A p \in Pods :
    (Done(p) /\ verdict[p] = "ready") =>
      /\ OwnWrites(p) # {}
      /\ Issued(p, {"Clear"}) # {} =>
           /\ LastOps(p, 1)[1].op = "Get"
           /\ LastOps(p, 1)[1].ok
           /\ LastOps(p, 1)[1].val # EmptyStr
           /\ Claimant(LastOps(p, 1)[1].val) = H(p)
           /\ \E i \in OwnWrites(p) :
                /\ ops[p][i].op = "Set"
                /\ i = Len(ops[p]) - 1
                /\ \A c \in Issued(p, {"Clear"}) : c < i

\* All three paths have ended ready: here the takeover, with the value the
\* second Get returned being the one the run had set.
C30_Witness ==
  \E p \in Pods :
    /\ Done(p)
    /\ verdict[p] = "ready"
    /\ Reverified(p)
    /\ LastOps(p, 1)[1].val = LastOps(p, 2)[1].val
    /\ lease = LastOps(p, 1)[1].val

C30_ReadyByFirstClaim ==
  \E p \in Pods :
    Done(p) /\ verdict[p] = "ready" /\ Kinds(p) = << "present", "Get", "Set" >>

C30_ReadyByRenewal ==
  \E p \in Pods :
    Done(p) /\ verdict[p] = "ready" /\ Kinds(p) = << "present", "Get", "Overwrite" >>

\* ------------------------------------------------------------------ C28
\* The requests made through the request function of the builder (the
\* binds are sent by bindDefaultSecurityGroups itself).
ViaRequester(r) ==
  r.path \in {"/v2/security_groups?q=name", "/v2/security_groups"}

NoSuccess(code) == code < 200 \/ code >= 400

\* C28: the request function returns an empty GUID and no error for a
\* response with status 404, whatever the method, so that a Remove whose
\* DELETE is answered 404 returns nil; every other status below 200 or
\* from 400 on makes it return an error.
C28_NotFoundIsNoError ==
  /\ \A i \in 1 .. Len(requests) :
       (ViaRequester(requests[i]) /\ ~requests[i].reply.fail) =>
         /\ requests[i].reply.code = 404 =>
              requests[i].ok /\ requests[i].got = ""
         /\ (requests[i].reply.code # 404 /\ NoSuccess(requests[i].reply.code)) =>
              ~requests[i].ok
  /\ (/\ RemoveCase
      /\ Len(requests) = 2
      /\ ~requests[2].reply.fail
      /\ requests[2].reply.code = 404) => err = "nil"

\* A Remove that found the group and whose DELETE was answered 404.
C28_Witness ==
  /\ RemoveCase
  /\ Len(requests) = 2
  /\ requests[2].method = "DELETE"
  /\ requests[2].guid = "g1"
  /\ requests[2].reply.code = 404
  /\ err = "nil"

\* 404 has been the answer to a request of each method, and the other
\* statuses that are no success have been answers too.
C28_NotFoundOn(method) ==
  \E i \in 1 .. Len(requests) :
    /\ ViaRequester(requests[i])
    /\ requests[i].method = method
    /\ requests[i].reply.code = 404

C28_NotFoundOnGet == C28_NotFoundOn("GET")

C28_NotFoundOnPost == C28_NotFoundOn("POST")

C28_NotFoundOnPut == C28_NotFoundOn("PUT")

C28_InformationalIsError ==
  \E i \in 1 .. Len(requests) :
    /\ ViaRequester(requests[i])
    /\ requests[i].reply.code = 101
    /\ ~requests[i].ok

\* ========================================= CreateOrUpdateSecurityGroup
\* Calls watched.
MaxCalls == 2

\* The definitions a call may send (BuildSecurityGroup of its endpoints).
Contents == {"rules1", "rules2"}

\* One entry of the history of calls.
Returned(ok, guid, method) ==
  [ok |-> ok, guid |-> guid, method |-> method, content |-> content]

\* A controller without a group of our name; no call made yet.
UpdateInit ==
  /\ SetupIdle
  /\ CodecIdle
  /\ UpdateIdle
  /\ clock = Epoch0
  /\ lease = EmptyStr
  /\ pc = [p \in Pods |-> "idle"]
  /\ CLAIM = [p \in Pods |-> EmptyStr]
  /\ C = [p \in Pods |-> EmptyStr]
  /\ wake = [p \in Pods |-> 0]
  /\ claimed = [p \in Pods |-> "n/a"]
  /\ verdict = [p \in Pods |-> "none"]
  /\ ops = [p \in Pods |-> << >>]
  /\ due = [p \in Pods |-> Epoch0 + Interval - 1]
  /\ onTime = TRUE

\* A caller (SetupCredHubApplicationSecurityGroups) calls
\* CreateOrUpdateSecurityGroup with a definition.
update_call ==
  /\ step \in {"idle", "returned"}
  /\ Len(results) < MaxCalls
  /\ content' \in Contents
  /\ mode' = "CreateOrUpdate"
  /\ step' = "GetExisting"
  /\ groupID' = ""
  /\ requests' = << >>
  /\ err' = "none"
  /\ UNCHANGED << ctxDoneAt, flaky, requester, host, wpc, outcomes, sleeps, waitErr, groups,
                  bound, rules, results, probeVars, codecVars >>

\* GetExistingSecurityGroup: the list is decoded whatever the status.
GetExistingSecurityGroup ==
  /\ step = "GetExisting"
  /\ \E how \in Ways, decoy \in BOOLEAN :
       LET reply == Answer(how, Listing(decoy))
           res == IF reply.fail THEN [ok |-> FALSE, guid |-> ""]
                  ELSE decode_list(reply)
       IN /\ requests' = Append(requests,
                 Sent("GET", "/v2/security_groups?q=name", "", reply, res))
          /\ groupID' = res.guid
          /\ IF ~res.ok
             THEN /\ step' = "returned"
                  /\ err' = "error"
                  /\ results' = Append(results, Returned(FALSE, "", "GET"))
             ELSE /\ step' = "CreateOrUpdate"
                  /\ UNCHANGED << err, results >>
  /\ UNCHANGED << ctxDoneAt, flaky, requester, host, wpc, outcomes, sleeps, waitErr, mode,
                  groups, bound, rules, content, probeVars, codecVars >>

\* Variant of update_method that always creates.
update_method_always_post(g) == "POST"

\* CreateOrUpdateSecurityGroup: POST without a group ID, else PUT to it.
update_method(g) == IF g = "" THEN "POST" ELSE "PUT"

\* CreateOrUpdateSecurityGroup after the lookup: the request, the status
\* check and the decoding of the resulting group.
CreateOrUpdateSecurityGroup ==
  /\ step = "CreateOrUpdate"
  /\ \E how \in Ways :
       LET method == update_method(groupID)
           target == IF method = "POST" THEN Fresh ELSE groupID
           stored == how = "served" /\ (method = "POST" \/ Has(groupID))
           served == IF method = "POST" \/ Has(groupID)
                     THEN Reply(201, "single", target, << >>)
                     ELSE Reply(404, "empty", "", << >>)
           reply == Answer(how, served)
           res == IF reply.fail \/ reply.code < 200 \/ reply.code >= 400
                  THEN [ok |-> FALSE, guid |-> ""]
                  ELSE decode_single(reply)
       IN /\ requests' = Append(requests,
                 Sent(method, "/v2/security_groups", groupID, reply, res))
          /\ groups' = IF stored /\ method = "POST"
                       THEN Append(groups, Fresh) ELSE groups
          /\ rules' = IF stored THEN [rules EXCEPT ![target] = content]
                      ELSE rules
          /\ results' = Append(results, Returned(res.ok, res.guid, method))
          /\ err' = IF res.ok THEN "nil" ELSE "error"
          /\ step' = "returned"
  /\ UNCHANGED << ctxDoneAt, flaky, requester, host, wpc, outcomes, sleeps, waitErr, mode,
                  groupID, bound, content, probeVars, codecVars >>

UpdateNext ==
  \/ update_call
  \/ GetExistingSecurityGroup
  \/ CreateOrUpdateSecurityGroup

UpdateSpec == UpdateInit /\ [][UpdateNext]_vars

\* ------------------------------------------------------------------ C29
\* The calls so far that returned no error, in order.
Succeeded == SelectSeq(results, LAMBDA r : r.ok)

Clears(p) == pc[p] \in {"clear", "dead_clear"} /\ pc'[p] # pc[p]

\* The step removes a stored lease.
Removes == lease # EmptyStr /\ lease' = EmptyStr

\* C31: whenever a Clear removes a lease, that lease is expired at that
\* moment or names the clearing pod, and it is the lease the pod's Get
\* returned: no lease that another pod wrote since is removed.
C31_ClearSparesLiveLease ==
  [][\A p \in Pods :
       (Clears(p) /\ Removes) =>
         /\ is_expired(lease, clock) \/ our_claim(p, lease)
         /\ lease = CLAIM[p]]_vars

\* C31 (amended): a Clear is issued on the strength of the pod's latest
\* Get alone: that Get returned a lease which names the pod (release) or
\* which is_expired then found expired (takeover); the Clear removes
\* whatever lease is stored when it lands, and nothing when it fails.
C31_ClearByWhatWasRead ==
  [][\A p \in Pods :
       Clears(p) =>
         /\ CLAIM[p] # EmptyStr
         /\ pc[p] = "dead_clear" => our_claim(p, CLAIM[p])
         /\ pc[p] = "clear" =>
              /\ ops[p][Len(ops[p])].op = "expired?"
              /\ ops[p][Len(ops[p])].ok
              /\ ops[p][Len(ops[p])].val = CLAIM[p]
              /\ is_expired(CLAIM[p], ops[p][Len(ops[p])].at)
         /\ Len(ops'[p]) = Len(ops[p]) + 1
         /\ ops'[p][Len(ops'[p])].op = "Clear"
         /\ lease' = IF ops'[p][Len(ops'[p])].ok THEN EmptyStr ELSE lease]_vars

\* A Clear has just removed a lease that the other pod had renewed after
\* the clearing pod's Get: the store is empty, the other pod's run ended
\* with that renewal accepted, and the renewed lease was not expired.
C31_Witness ==
  \E p, q \in Pods :
    /\ p # q
    /\ pc[p] = "take_now"
    /\ ops[p][Len(ops[p])].op = "Clear"
    /\ ops[p][Len(ops[p])].ok
    /\ lease = EmptyStr
    /\ Done(q)
    /\ ops[q][Len(ops[q])].op = "Overwrite"
    /\ ops[q][Len(ops[q])].ok
    /\ CLAIM[p] # ops[q][Len(ops[q])].val
    /\ ~is_expired(ops[q][Len(ops[q])].val, clock)

\* --------------------------------------------------------------- C32
\* p's run found no lease and went on to the first claim (lines 63-64).
FirstAttempt(p) ==
  /\ FirstCase(p)
  /\ Len(ops[p]) >= 3
  /\ ops[p][3].op = "Set"

\* p's run found no lease, its first claim was accepted and made it
\* ready, and that claim is what the store holds.
FirstClaimStands(p) ==
  /\ Done(p)
  /\ FirstAttempt(p)
  /\ ops[p][3].ok
  /\ verdict[p] = "ready"
  /\ lease = ops[p][3].val

Replaces(p) == Writes(p) /\ Written(p).ok /\ lease # EmptyStr

\* C33: every write that lands stores a timestamp greater than or equal
\* to the timestamp of the lease it replaces.
C33_TimestampNeverDecreases ==
  [][\A p \in Pods :
       Replaces(p) => ClaimedAt(lease') >= ClaimedAt(lease)]_vars

\* C33 (amended): a write stores the second its pod read before the write
\* went out, so never a later one than the second at which it lands; only
\* a renewal replaces a stored lease; and a renewal that replaces a lease
\* of its own pod never stores an earlier timestamp than that lease had.
C33_OwnTimestampNeverDecreases ==
  [][\A p \in Pods :
       /\ (Writes(p) /\ Written(p).ok) =>
            /\ lease' = Written(p).val
            /\ ClaimedAt(lease') <= clock
       /\ Replaces(p) =>
            /\ Written(p).op = "Overwrite"
            /\ our_claim(p, lease) => ClaimedAt(lease') >= ClaimedAt(lease)]_vars

\* A renewal has replaced the pod's own stamped lease a second after the
\* pod read its clock: the stored timestamp grew and is behind the clock.
C33_Witness ==
  \E p \in Pods :
    /\ Done(p)
    /\ RenewCase(p)
    /\ ops[p][3].ok
    /\ lease = ops[p][3].val
    /\ ClaimedAt(lease) > ClaimedAt(Read(p))
    /\ ClaimedAt(lease) < clock

\* A renewal stamped before a takeover has replaced the newer claim of
\* the pod that took over.
C33_TimestampDecreased ==
  \E p, q \in Pods :
    /\ p # q
    /\ Done(p) /\ RenewCase(p) /\ ops[p][3].ok
    /\ Done(q) /\ TakeoverCase(q)
    /\ \E i \in 1 .. Len(ops[q]) :
         /\ ops[q][i].op = "Set" /\ ops[q][i].ok
         /\ ClaimedAt(ops[q][i].val) > ClaimedAt(ops[p][3].val)
    /\ lease = ops[p][3].val

\* --------------------------------------------------------------- C34
\* C34: every bind request that Apply issues, for running and for
\* staging, carries a non-empty group GUID, also when the create or
\* update request was answered with 404.
C34_BindsNonEmptyGUID ==
  mode = "Apply" =>
    \A i \in 1..Len(requests), l \in Lifecycles :
      IsBind(requests[i], l) => requests[i].guid # ""

\* An Apply whose update was answered with 404 went on to the bind for
\* the running lifecycle, with no GUID.
C34_BoundAfterNotFound ==
  /\ mode = "Apply"
  /\ Len(requests) = 3
  /\ requests[2].method = "PUT"
  /\ requests[2].reply.code = 404
  /\ IsBind(requests[3], "running")
  /\ requests[3].guid = ""

\* --------------------------------------------------------------- C35
\* C35: a request of Apply that returns an error is the last request of
\* that Apply, and Apply returns an error: after a failed lookup there is
\* no create, update or bind; after a failed create or update no bind;
\* after a failed bind for running no bind for staging.
C35_StopsAtFirstFailure ==
  mode = "Apply" =>
    /\ \A i \in 1..Len(requests) :
         ~requests[i].ok =>
           /\ i = Len(requests)
           /\ step = "returned"
           /\ err = "error"
    /\ (Len(requests) >= 1 /\ ~requests[1].ok) =>
         IsLookup(requests[1]) /\ Len(requests) = 1
    /\ (Len(requests) >= 2 /\ ~requests[2].ok) =>
         /\ requests[2].path = "/v2/security_groups"
         /\ \A i \in 1..Len(requests), l \in Lifecycles :
              ~IsBind(requests[i], l)
    /\ (Len(requests) >= 3 /\ ~requests[3].ok) =>
         /\ IsBind(requests[3], "running")
         /\ \A i \in 1..Len(requests) : ~IsBind(requests[i], "staging")
    /\ err = "error" =>
         /\ step = "returned"
         /\ ~requests[Len(requests)].ok

\* An Apply that updated the group it found and was refused the bind of
\* that group for running: it returned an error without a fourth request.
C35_Witness ==
  /\ ApplyCase
  /\ Len(requests) = 3
  /\ requests[1].ok /\ requests[2].ok
  /\ requests[3].guid # ""
  /\ ~requests[3].ok
  /\ err = "error"

\* An Apply whose create was refused.
C35_CreateFailed ==
  /\ ApplyCase
  /\ Len(requests) = 2
  /\ requests[2].method = "POST"
  /\ ~requests[2].ok
  /\ err = "error"

\* ============================================ part 2: the wait, watched
\* The caller cancels the context it gave to WaitForHost.  The loop has
\* no select on ctx.Done (): the context only goes on to the lookup.
cancel ==
  /\ wpc \in {"lookup", "sleep"}
  /\ ctxDoneAt = -1
  /\ ctxDoneAt' = Len(outcomes)
  /\ UNCHANGED << flaky, requester, host, wpc, outcomes, sleeps, waitErr, mode,
                  step, groupID, requests, err, groups, bound, probeVars,
                  codecVars, updateVars >>

\* The name server settles: from now on no lookup fails as temporary or
\* not found (the Kubernetes service is up, or the failure is final).
settle ==
  /\ wpc \in {"lookup", "sleep"}
  /\ flaky
  /\ flaky' = FALSE
  /\ UNCHANGED << ctxDoneAt, requester, host, wpc, outcomes, sleeps, waitErr,
                  mode, step, groupID, requests, err, groups, bound, probeVars,
                  codecVars, updateVars >>

WaitNext ==
  \/ wait_lookup
  \/ wait_sleep
  \/ wait_for_cc
  \/ cancel
  \/ settle

\* The two waits of process (), with a name server that may settle and a
\* context that may be cancelled.  The loop runs in a live goroutine: a
\* lookup that can be made is made, and time.Sleep ends.
WaitSpec ==
  /\ SetupInit
  /\ [][WaitNext]_vars
  /\ WF_vars(wait_lookup)
  /\ WF_vars(wait_sleep)

\* ------------------------------------------------------------------ C36
AllRetried == \A i \in 1..Len(outcomes) : Retried(outcomes[i])

\* WaitForHost has returned exactly when its latest lookup succeeded or
\* failed with an error that is not retried; while every lookup failed
\* with a retried error it has not returned and its next step can be
\* taken, however many lookups that makes and whether or not the context
\* is cancelled.
WaitReturnsExactlyWhen ==
  /\ wpc = "returned" <=>
       (outcomes # << >> /\ ~Retried(outcomes[Len(outcomes)]))
  /\ AllRetried => wpc # "returned"
  /\ (AllRetried /\ Len(outcomes) < MaxLookups) =>
       ENABLED (wait_lookup \/ wait_sleep)
  /\ sleeps = Cardinality({i \in 1..Len(outcomes) : Retried(outcomes[i])})
              - (IF wpc = "sleep" THEN 1 ELSE 0)

\* The name server has settled while WaitForHost is waiting.
Settled == ~flaky /\ wpc # "returned" /\ Len(outcomes) < MaxLookups

\* C36: WaitForHost returns exactly when a lookup succeeds or fails with
\* an error that is not retried: once lookups no longer fail as temporary
\* or not found it returns after finitely many lookups, and while every
\* lookup fails so it goes on retrying, with no cap on the attempts and
\* with no regard to a cancelled context.
C36_ReturnsExactlyWhenNotRetried ==
  /\ []WaitReturnsExactlyWhen
  /\ Settled ~> (wpc = "returned")

\* The context was cancelled before the first lookup and the wait is in
\* its sleep after two more lookups, both retried.
C36_Witness ==
  /\ ctxDoneAt = 0
  /\ Len(outcomes) >= 2
  /\ AllRetried
  /\ wpc = "sleep"
  /\ sleeps = Len(outcomes) - 1

\* The wait returned nil at the lookup after the name server settled.
C36_ReturnedOnceSettled ==
  /\ ~flaky
  /\ wpc = "returned"
  /\ Len(outcomes) >= 2
  /\ waitErr.kind = "nil"

====
